---- MODULE Spec2Model ----
(***************************************************************************)
(* A model of rbfopt_utils.py (RBFOpt utility functions).                  *)
(*                                                                         *)
(* Every function of the module that is modelled here is an operator that  *)
(* computes what the Python code computes, and an action that calls it on  *)
(* inputs drawn from bounded sets and records the outcome.  A Python call  *)
(* either returns a value or raises; an outcome is the record              *)
(*     [exc |-> "none", val |-> v]      (the call returned v)              *)
(*     [exc |-> "AssertionError"], ...   (the call raised)                 *)
(* Each component of the module has its own variable and specification.    *)
(***************************************************************************)
EXTENDS Integers, Sequences, FiniteSets, TLC

VARIABLES
    sched,      \* last call of the scheduling arithmetic (get_sigma_n, get_fmax_current_iter)
    results,    \* the caller's list of dispatched tasks (task ids, in list order)
    ready,      \* the tasks whose handle answers ready()
    completed,  \* the tasks of the list in the order in which they completed
    next_id,    \* id of the next task to dispatch
    ready_ret,  \* last call of results_ready, with the readiness it saw
    index_ret,  \* last call of get_one_ready_index, with the readiness it saw
    settings,   \* the RbfSettings the design functions read
    var_lower,  \* lower bounds of the variables (caller's array)
    var_upper,  \* upper bounds of the variables (caller's array)
    integer_vars, \* indices (1-based) of the integer-constrained variables
    pc,         \* where initialize_nodes is
    dependent,  \* initialize_nodes: no linearly independent set found yet
    itercount,  \* initialize_nodes: number of generation attempts made
    generated,  \* initialize_nodes: the node set of the attempt, as generated
    nodes,      \* initialize_nodes: the node set of the attempt, rounded
    node_pos,   \* get_random_corners: the corners collected so far
    round_call, \* the call of round_integer_bounds, with the bounds it was given
    solve,      \* an interpolation system: its nodes, its matrix, what the solvers gave
    transform,  \* the call of an entry point of the transform pipeline
    design      \* the call of a generator of an initial design

schedVars == <<sched>>
poolVars == <<results, ready, completed, next_id, ready_ret, index_ret>>
boxVars == <<settings, var_lower, var_upper, integer_vars>>
nodesVars == <<pc, dependent, itercount, generated, nodes, node_pos>>
callVars == <<round_call, solve, transform, design>>
vars == <<schedVars, poolVars, boxVars, nodesVars, callVars>>

\* what the actions of one component leave alone
notSched == <<poolVars, boxVars, nodesVars, callVars>>
notPool == <<schedVars, boxVars, nodesVars, callVars>>
notNodes == <<schedVars, poolVars, callVars>>
notBounds == <<schedVars, poolVars, nodesVars, settings, solve, transform, design>>
notSolve == <<schedVars, poolVars, boxVars, nodesVars, round_call, transform, design>>
notTransform == <<schedVars, poolVars, boxVars, nodesVars, round_call, solve, design>>
notDesign == <<schedVars, poolVars, boxVars, nodesVars, round_call, solve, transform>>

\* ------------------------------------------------------------------------
\* Bounds of the model
\* ------------------------------------------------------------------------
MaxK == 10          \* largest number of nodes k passed to get_sigma_n
MaxStep == 4        \* largest current_step
MaxGS == 3          \* largest num_global_searches
MaxNip == 3         \* largest num_initial_points passed to get_sigma_n
MaxN == 2           \* largest dimension n
MaxNodes == 4       \* longest node_val array
MaxVal == 1         \* largest function value in node_val
MaxTasks == 3       \* number of tasks dispatched to the worker pool
Den == 2            \* a coordinate is an integer number of units of 1/Den
MaxCoord == 3       \* largest bound of a variable, in units of 1/Den
MAX_RANDOM_INIT == 3 \* config.MAX_RANDOM_INIT: the cap on generation attempts
MaxSolveNodes == 2  \* largest number of nodes k of an interpolation system
MantBits == 4       \* significant bits of a float
Grid == 5           \* a coordinate given to the transforms is the float of j/Grid

\* ------------------------------------------------------------------------
\* Python outcomes
\* ------------------------------------------------------------------------
Return(v) == [exc |-> "none", val |-> v]
Raise(e) == [exc |-> e]
Returned(r) == r.exc = "none"

NoCall == [fn |-> "none"]

\* The outcome of a call that has not been made yet
Pending == [exc |-> "pending"]

\* The components that a specification does not exercise stay idle
SchedIdle == sched = NoCall

PoolIdle ==
    /\ results = <<>> /\ ready = {} /\ completed = <<>> /\ next_id = 1
    /\ ready_ret = NoCall /\ index_ret = NoCall

BoxIdle ==
    /\ settings = NoCall /\ var_lower = <<>> /\ var_upper = <<>>
    /\ integer_vars = {}

NodesIdle ==
    /\ pc = "idle" /\ dependent = TRUE /\ itercount = 0
    /\ generated = <<>> /\ nodes = <<>> /\ node_pos = <<>>

CallsIdle ==
    /\ round_call = NoCall /\ solve = NoCall
    /\ transform = NoCall /\ design = NoCall

\* Sequences over S of length lo..hi
SeqsOf(S, lo, hi) == UNION {[1..m -> S] : m \in lo..hi}

InitStrategies ==
    {"all_corners", "lower_corners", "rand_corners", "lhd_maximin", "lhd_corr"}

\* 2 ** n
RECURSIVE Pow2(_)
Pow2(n) == IF n = 0 THEN 1 ELSE 2 * Pow2(n - 1)

\* ------------------------------------------------------------------------
\* Arithmetic on coordinates (integers in units of 1/Den) and small matrices
\* ------------------------------------------------------------------------

\* math.floor and math.ceil of x units, in units
Floor(x) == (x \div Den) * Den
Ceil(x) == 0 - Floor(0 - x)

\* np.around of x units, in units: to the nearest integer, a tie going to the
\* even one
Around(x) ==
    LET q == x \div Den
        r == x % Den
    IN  IF 2 * r < Den THEN q * Den
        ELSE IF 2 * r > Den THEN (q + 1) * Den
        ELSE IF q % 2 = 0 THEN q * Den ELSE (q + 1) * Den

\* sum of f[i] for i in 1..m
RECURSIVE SumTo(_, _)
SumTo(f, m) == IF m = 0 THEN 0 ELSE f[m] + SumTo(f, m - 1)

\* M (a sequence of rows) without row 1 and column j
Minor(M, j) ==
    [r \in 1..(Len(M) - 1) |->
        [c \in 1..(Len(M) - 1) |-> M[r + 1][IF c < j THEN c ELSE c + 1]]]

\* determinant of a square matrix, expanded along its first row
RECURSIVE Det(_)
Det(M) ==
    IF Len(M) = 0 THEN 1
    ELSE IF Len(M) = 1 THEN M[1][1]
    ELSE SumTo([j \in 1..Len(M) |->
                   (IF j % 2 = 1 THEN 1 ELSE -1) * M[1][j] * Det(Minor(M, j))],
               Len(M))

\* N^T N - e I for a k x n matrix N (a sequence of k rows)
GramShifted(N, n, e) ==
    [a \in 1..n |->
        [b \in 1..n |->
            SumTo([r \in 1..Len(N) |-> N[r][a] * N[r][b]], Len(N))
            - (IF a = b THEN e ELSE 0)]]

\* the leading m x m block of M
Leading(M, m) == [a \in 1..m |-> [b \in 1..m |-> M[a][b]]]

\* min(s) > eps for the singular values s of N, a k x n matrix with k >= n:
\* the smallest eigenvalue of N^T N exceeds eps^2, that is N^T N - eps^2 I is
\* positive definite (all its leading principal minors are positive)
min_singular_value_exceeds(N, n, eps) ==
    \A m \in 1..n : Det(Leading(GramShifted(N, n, eps * eps), m)) > 0

\* ------------------------------------------------------------------------
\* Initial designs
\* ------------------------------------------------------------------------

Dims == {1, 2}              \* problem dimensions n
EpsZeroValues == {0, 1}     \* settings.eps_zero, in units of 1/Den

\* get_all_corners writing every coordinate from the last letter of the corner
get_all_corners_last_letter(lower, upper) ==
    LET n == Len(lower)
    IN  [i \in 1..Pow2(n) |->
            [j \in 1..n |-> IF (i - 1) % 2 = 0 THEN lower[j] ELSE upper[j]]]

\* corner i - 1 of itertools.product('lu', repeat=n): its letter j is the bit
\* of weight 2^(n-j) of i - 1
get_all_corners(lower, upper) ==
    LET n == Len(lower)
    IN  [i \in 1..Pow2(n) |->
            [j \in 1..n |->
                IF ((i - 1) \div Pow2(n - j)) % 2 = 0 THEN lower[j]
                ELSE upper[j]]]

\* get_lower_corners with the loop writing node_pos[i, i]
get_lower_corners_row_before(lower, upper) ==
    LET n == Len(lower)
    IN  [i \in 1..(n + 1) |->
            [j \in 1..n |-> IF i = j THEN upper[j] ELSE lower[j]]]

\* np.tile(var_lower, (n + 1, 1)), then node_pos[i + 1, i] = var_upper[i]
get_lower_corners(lower, upper) ==
    LET n == Len(lower)
    IN  [i \in 1..(n + 1) |->
            [j \in 1..n |-> IF i - 1 = j THEN upper[j] ELSE lower[j]]]

\* limits[np.random.randint(2, size=n), np.arange(n)]: the points it can give
RandomCorners(lower, upper) ==
    {p \in [1..Len(lower) -> 0..MaxCoord] :
        \A j \in 1..Len(lower) : p[j] \in {lower[j], upper[j]}}

\* the square of the Euclidean distance between two points
SqDist(p, q) == SumTo([j \in 1..Len(p) |-> (p[j] - q[j]) * (p[j] - q[j])], Len(p))

\* get_min_distance(point, other_points) >= 0
min_distance_nonnegative(point, other_points) ==
    \A i \in 1..Len(other_points) : SqDist(point, other_points[i]) >= 0

\* get_min_distance(point, other_points) > 0
min_distance_positive(point, other_points) ==
    \A i \in 1..Len(other_points) : SqDist(point, other_points[i]) > 0

\* get_uniform_lhs mapped to the box: the designs of m = n + 1 points whose
\* coordinate j of point i lies in stratum perm_j(i) of [lower[j], upper[j]).
\* A design is a Latin hypercube design of num_trials random ones; which of
\* them scores best is random, so every one of them can be the outcome.
InStratum(x, lo, up, st, m) ==
    IF up = lo THEN x = lo
    ELSE (up - lo) * st <= m * (x - lo) /\ m * (x - lo) < (up - lo) * (st + 1)

\* np.random.permutation(m): the orders of the strata 0..m-1
Perms(m) == {f \in [1..m -> 0..(m - 1)] : \A a, b \in 1..m : a # b => f[a] # f[b]}

\* coordinate j of the m points of a design over [lo, up): one point in every
\* stratum, the strata taken in a random order
LatinColumns ==
    [m \in {n + 1 : n \in Dims}, lo \in 0..MaxCoord, up \in 0..MaxCoord |->
        {col \in [1..m -> 0..MaxCoord] :
            \E perm \in Perms(m) :
                \A i \in 1..m : InStratum(col[i], lo, up, perm[i], m)}]

\* a column for each of the coordinates 1..j
RECURSIVE ColumnChoices(_, _, _)
ColumnChoices(lower, upper, j) ==
    IF j = 0 THEN {<<>>}
    ELSE {Append(cs, c) :
            cs \in ColumnChoices(lower, upper, j - 1),
            c \in LatinColumns[Len(lower) + 1, lower[j], upper[j]]}

LatinDesigns(lower, upper) ==
    {[i \in 1..(Len(lower) + 1) |-> [j \in 1..Len(lower) |-> cols[j][i]]] :
        cols \in ColumnChoices(lower, upper, Len(lower))}

\* get_lhd_maximin_points, get_lhd_corr_points: the designs they can return
LhdOutcomes(lower, upper) ==
    IF Len(lower) = 1 THEN {<<lower, upper>>}
    ELSE LatinDesigns(lower, upper)

\* the node sets one call of the strategy's generator can return
\* (get_random_corners is sampled corner by corner, see SampleCorner)
Generate(strategy, lower, upper) ==
    CASE strategy = "all_corners" -> {get_all_corners(lower, upper)}
      [] strategy = "lower_corners" -> {get_lower_corners(lower, upper)}
      [] strategy \in {"lhd_maximin", "lhd_corr"} -> LhdOutcomes(lower, upper)

\* nodes[:, integer_vars] = np.around(nodes[:, integer_vars])
round_nodes(N, ivars) ==
    [i \in 1..Len(N) |->
        [j \in 1..Len(N[i]) |-> IF j \in ivars THEN Around(N[i][j]) ELSE N[i][j]]]

\* U, s, V = np.linalg.svd(nodes); if (min(s) > settings.eps_zero):
\* dependent = False
is_dependent(N) ==
    ~min_singular_value_exceeds(N, Len(var_lower), settings.eps_zero)

\* the exit of initialize_nodes, raising only past the cap
exit_pc_raise_past_cap(dep, count) ==
    IF dep /\ count < MAX_RANDOM_INIT THEN "loop"
    ELSE IF count > MAX_RANDOM_INIT THEN "raised"
    ELSE "returned"

\* while (dependent and itercount < config.MAX_RANDOM_INIT) ... ;
\* if (itercount == config.MAX_RANDOM_INIT): raise RuntimeError; return nodes
exit_pc(dep, count) ==
    IF dep /\ count < MAX_RANDOM_INIT THEN "loop"
    ELSE IF count = MAX_RANDOM_INIT THEN "raised"
    ELSE "returned"

\* the end of one iteration of the loop, on the set that was generated
FinishAttempt(gen, count) ==
    LET rounded == IF integer_vars # {} THEN round_nodes(gen, integer_vars)
                   ELSE gen
        dep == is_dependent(rounded)
    IN  /\ generated' = gen
        /\ nodes' = rounded
        /\ dependent' = dep
        /\ itercount' = count
        /\ pc' = exit_pc(dep, count)

\* one iteration of the loop of initialize_nodes, for the strategies whose
\* generator returns at once
Attempt ==
    /\ pc = "loop"
    /\ settings.init_strategy # "rand_corners"
    /\ \E gen \in Generate(settings.init_strategy, var_lower, var_upper) :
          FinishAttempt(gen, itercount + 1)
    /\ node_pos' = node_pos
    /\ UNCHANGED <<boxVars, notNodes>>

\* one iteration of the loop under 'rand_corners': get_random_corners draws
\* its first corner
BeginRandomCorners ==
    /\ pc = "loop"
    /\ settings.init_strategy = "rand_corners"
    /\ itercount' = itercount + 1
    /\ \E point \in RandomCorners(var_lower, var_upper) : node_pos' = <<point>>
    /\ pc' = "sampling"
    \* the set of the previous attempt is dead: nothing reads it before
    \* nodes is assigned again
    /\ generated' = <<>> /\ nodes' = <<>>
    /\ UNCHANGED <<dependent, boxVars, notNodes>>

\* while (len(node_pos) < n+1): draw a corner, keep it if it is a new one
SampleCorner ==
    /\ pc = "sampling"
    /\ Len(node_pos) < Len(var_lower) + 1
    /\ \E point \in RandomCorners(var_lower, var_upper) :
          node_pos' = IF min_distance_positive(point, node_pos)
                      THEN Append(node_pos, point) ELSE node_pos
    /\ UNCHANGED <<pc, dependent, itercount, generated, nodes, boxVars, notNodes>>

\* get_random_corners returns and the iteration of initialize_nodes ends
EndRandomCorners ==
    /\ pc = "sampling"
    /\ Len(node_pos) >= Len(var_lower) + 1
    /\ FinishAttempt(node_pos, itercount)
    /\ node_pos' = <<>>
    /\ UNCHANGED <<boxVars, notNodes>>

Intervals == {iv \in (0..MaxCoord) \X (0..MaxCoord) : iv[1] <= iv[2]}

\* the boxes of dimension n
Boxes(n) == [1..n -> Intervals]

\* the calls of initialize_nodes: the LHD strategies need a box whose strata
\* hold points that the units of 1/Den can express
InitNodes ==
    /\ \E n \in Dims, strategy \in InitStrategies, eps \in EpsZeroValues :
        \E box \in Boxes(n), ivars \in SUBSET (1..n) :
          /\ settings = [init_strategy |-> strategy, eps_zero |-> eps]
          /\ var_lower = [j \in 1..n |-> box[j][1]]
          /\ var_upper = [j \in 1..n |-> box[j][2]]
          /\ integer_vars = ivars
          /\ (strategy \in {"lhd_maximin", "lhd_corr"} /\ n > 1) =>
                \A j \in 1..n : LatinColumns[n + 1, box[j][1], box[j][2]] # {}
    /\ pc = "loop" /\ dependent = TRUE /\ itercount = 0
    /\ generated = <<>> /\ nodes = <<>> /\ node_pos = <<>>
    /\ SchedIdle /\ PoolIdle /\ CallsIdle

NextNodes == Attempt \/ BeginRandomCorners \/ SampleCorner \/ EndRandomCorners
SpecNodes == InitNodes /\ [][NextNodes]_vars

\* the 'rand_corners' branch of initialize_nodes as a running program: a
\* statement that can be executed is executed, and a corner that
\* np.random.randint can draw again and again is drawn in the end
InitRandomCorners == InitNodes /\ settings.init_strategy = "rand_corners"
NextRandomCorners == BeginRandomCorners \/ SampleCorner \/ EndRandomCorners
SpecRandomCorners ==
    /\ InitRandomCorners /\ [][NextRandomCorners]_vars
    /\ WF_vars(BeginRandomCorners) /\ SF_vars(SampleCorner)
    /\ WF_vars(EndRandomCorners)

\* ------------------------------------------------------------------------
\* Rounding of the bounds of the integer variables
\* ------------------------------------------------------------------------

\* the largest element of a non-empty set of integers
Max(S) == CHOOSE x \in S : \A y \in S : y <= x

\* the loop body of round_integer_bounds without the swap of crossed bounds
round_integer_bounds_no_swap(lower, upper, ivars) ==
    IF ivars = {} THEN Return([lower |-> lower, upper |-> upper])
    ELSE IF Len(lower) # Len(upper) \/ Max(ivars) > Len(lower)
    THEN Raise("AssertionError")
    ELSE Return([lower |-> [i \in 1..Len(lower) |->
                               IF i \in ivars THEN Floor(lower[i]) ELSE lower[i]],
                 upper |-> [i \in 1..Len(upper) |->
                               IF i \in ivars THEN Ceil(upper[i]) ELSE upper[i]]])

\* round_integer_bounds: the bounds it leaves in the two arrays
round_integer_bounds(lower, upper, ivars) ==
    IF ivars = {} THEN Return([lower |-> lower, upper |-> upper])
    ELSE IF Len(lower) # Len(upper) \/ Max(ivars) > Len(lower)
    THEN Raise("AssertionError")
    ELSE LET lo == [i \in 1..Len(lower) |-> Floor(lower[i])]
             up == [i \in 1..Len(upper) |-> Ceil(upper[i])]
         IN  Return([lower |-> [i \in 1..Len(lower) |->
                                   IF i \notin ivars THEN lower[i]
                                   ELSE IF up[i] < lo[i] THEN up[i] ELSE lo[i]],
                     upper |-> [i \in 1..Len(upper) |->
                                   IF i \notin ivars THEN upper[i]
                                   ELSE IF up[i] < lo[i] THEN lo[i] ELSE up[i]]])

\* the call: the arrays are rounded in place
RoundIntegerBounds ==
    /\ round_call # NoCall /\ round_call.ret = Pending
    /\ LET r == round_integer_bounds(var_lower, var_upper, integer_vars)
       IN  /\ round_call' = [round_call EXCEPT !.ret =
                                IF Returned(r) THEN Return("None") ELSE r]
           /\ var_lower' = IF Returned(r) THEN r.val.lower ELSE var_lower
           /\ var_upper' = IF Returned(r) THEN r.val.upper ELSE var_upper
    /\ UNCHANGED <<integer_vars, notBounds>>

\* the bounds given to round_integer_bounds: any numbers, crossed ones included
InitBounds ==
    /\ \E n \in Dims :
          /\ var_lower \in [1..n -> (0 - MaxCoord)..MaxCoord]
          /\ var_upper \in [1..n -> (0 - MaxCoord)..MaxCoord]
          /\ integer_vars \in SUBSET (1..(n + 1))
    /\ round_call = [fn |-> "round_integer_bounds", var_lower |-> var_lower,
                     var_upper |-> var_upper, ret |-> Pending]
    /\ settings = NoCall /\ solve = NoCall /\ transform = NoCall
    /\ design = NoCall
    /\ SchedIdle /\ PoolIdle /\ NodesIdle

NextBounds == RoundIntegerBounds
SpecBounds == InitBounds /\ [][NextBounds]_vars

\* ------------------------------------------------------------------------
\* Claims about round_integer_bounds
\* ------------------------------------------------------------------------

RoundDone ==
    /\ round_call # NoCall /\ Returned(round_call.ret)
    /\ integer_vars # {}

\* rounding the interval [lo, up] inward leaves an interval
RoundsInwardWithoutCrossing(lo, up) ==
    \E x \in lo..up : x % Den = 0

\* C7: round_integer_bounds rounds the bounds of every integer variable in the
\* usual way: the lower bound up to the smallest integer not below it, the
\* upper bound down to the largest integer not above it, so that the rounded
\* interval holds no point outside the original one.
C7_RoundsInward ==
    RoundDone =>
        \A i \in integer_vars :
            RoundsInwardWithoutCrossing(round_call.var_lower[i],
                                        round_call.var_upper[i]) =>
                /\ var_lower[i] % Den = 0 /\ var_upper[i] % Den = 0
                /\ round_call.var_lower[i] <= var_lower[i]
                /\ var_lower[i] < round_call.var_lower[i] + Den
                /\ var_upper[i] <= round_call.var_upper[i]
                /\ round_call.var_upper[i] < var_upper[i] + Den

\* C8: after round_integer_bounds, var_lower[i] <= var_upper[i] for every i in
\* integer_vars whatever the bounds given (crossed ones are swapped), both
\* bounds of such an i are integers, and the entries of the other indices are
\* unchanged.
C8_RoundedBoundsOrdered ==
    RoundDone =>
        /\ Len(var_lower) = Len(round_call.var_lower)
        /\ Len(var_upper) = Len(round_call.var_upper)
        /\ \A i \in 1..Len(var_lower) :
              IF i \in integer_vars
              THEN /\ var_lower[i] <= var_upper[i]
                   /\ var_lower[i] % Den = 0 /\ var_upper[i] % Den = 0
              ELSE /\ var_lower[i] = round_call.var_lower[i]
                   /\ var_upper[i] = round_call.var_upper[i]

\* bounds given crossed and left in order, beside a continuous variable whose
\* crossed bounds are left alone
C8_Witness ==
    /\ RoundDone
    /\ integer_vars = {1} /\ Len(var_lower) = 2
    /\ round_call.var_lower[1] > round_call.var_upper[1] + Den
    /\ var_lower[1] < var_upper[1]
    /\ var_lower[2] > var_upper[2]

\* ------------------------------------------------------------------------
\* The interpolation system: get_rbf_matrix, get_matrix_inverse,
\* get_rbf_coefficients.  The nodes are points of dimension 1 with integer
\* coordinate, so that distances and kernel values are integers; a solution
\* is a vector of fractions num[i] / den with one denominator.
\* ------------------------------------------------------------------------

Abs(x) == IF x < 0 THEN 0 - x ELSE x

\* The numbers of a system: a + b * sqrt(2) with integers a and b, written
\* <<a, b>>. The distances of the node sets of the model, their cubes, and all
\* sums and products of them are such numbers, so the arithmetic is exact.
SInt(a) == <<a, 0>>
SAdd(x, y) == <<x[1] + y[1], x[2] + y[2]>>
SSub(x, y) == <<x[1] - y[1], x[2] - y[2]>>
SNeg(x) == <<0 - x[1], 0 - x[2]>>
SMul(x, y) == <<x[1] * y[1] + 2 * x[2] * y[2], x[1] * y[2] + x[2] * y[1]>>

\* the sign of a + b * sqrt(2): that of the larger of a^2 and 2 b^2 when the
\* signs of a and b differ
SSign(x) ==
    IF x[1] >= 0 /\ x[2] >= 0 THEN (IF x = <<0, 0>> THEN 0 ELSE 1)
    ELSE IF x[1] <= 0 /\ x[2] <= 0 THEN -1
    ELSE IF x[1] * x[1] > 2 * x[2] * x[2] THEN (IF x[1] > 0 THEN 1 ELSE -1)
    ELSE (IF x[2] > 0 THEN 1 ELSE -1)

SAbs(x) == IF SSign(x) < 0 THEN SNeg(x) ELSE x
SLess(x, y) == SSign(SSub(x, y)) < 0

RECURSIVE SSumTo(_, _)
SSumTo(f, m) == IF m = 0 THEN <<0, 0>> ELSE SAdd(f[m], SSumTo(f, m - 1))

\* M (a sequence of rows) without its last row and column j
MinorLast(M, j) ==
    [r \in 1..(Len(M) - 1) |->
        [c \in 1..(Len(M) - 1) |-> M[r][IF c < j THEN c ELSE c + 1]]]

\* determinant of a square matrix of such numbers, expanded along its last
\* row, where the matrix of a system has its block of zeros
RECURSIVE SDet(_)
SDet(M) ==
    IF Len(M) = 0 THEN <<1, 0>>
    ELSE IF Len(M) = 1 THEN M[1][1]
    ELSE LET m == Len(M)
         IN  SSumTo([j \in 1..m |->
                        IF M[m][j] = <<0, 0>> THEN <<0, 0>>
                        ELSE SMul(IF (m + j) % 2 = 0 THEN M[m][j]
                                  ELSE SNeg(M[m][j]),
                                  SDet(MinorLast(M, j)))],
                    m)

\* the integers that are m^2 or 2 m^2: the squares of the distances that the
\* numbers above can express
RECURSIVE IntSqrtFrom(_, _)
IntSqrtFrom(d, m) == IF m * m >= d THEN m ELSE IntSqrtFrom(d, m + 1)
IsSquare(d) == IntSqrtFrom(d, 0) * IntSqrtFrom(d, 0) = d
HasSurdRoot(d) == IsSquare(d) \/ (d % 2 = 0 /\ IsSquare(d \div 2))

\* math.sqrt(d) for such an integer
surd_sqrt(d) ==
    IF IsSquare(d) THEN <<IntSqrtFrom(d, 0), 0>>
    ELSE <<0, IntSqrtFrom(d \div 2, 0)>>

\* the kernel names of the systems: the two kernels whose values at integer
\* distances are integers, and a name that is not a kernel
RbfNames == {"cubic", "linear", "gaussian"}

\* the kernel names asked about: the four kernels and a name that is not one
KernelNames == {"cubic", "thin_plate_spline", "linear", "multiquadric", "gaussian"}

\* get_rbf_function: the name of the function returned, "None" when the if
\* chain falls through
get_rbf_function(stg) ==
    IF stg.rbf = "cubic" THEN "_cubic"
    ELSE IF stg.rbf = "thin_plate_spline" THEN "_thin_plate_spline"
    ELSE IF stg.rbf = "linear" THEN "_linear"
    ELSE IF stg.rbf = "multiquadric" THEN "_multiquadric"
    ELSE "None"

\* _cubic(r) and _linear(r)
rbf_value(stg, r) ==
    IF get_rbf_function(stg) = "_cubic" THEN SMul(r, SMul(r, r))
    ELSE r

\* get_degree_polynomial with thin_plate_spline put with the kernels of degree 0
get_degree_polynomial_spline_zero(stg) ==
    IF stg.rbf = "cubic" THEN 1
    ELSE IF stg.rbf = "linear" \/ stg.rbf = "multiquadric"
            \/ stg.rbf = "thin_plate_spline" THEN 0
    ELSE -1

get_degree_polynomial(stg) ==
    IF stg.rbf = "cubic" \/ stg.rbf = "thin_plate_spline" THEN 1
    ELSE IF stg.rbf = "linear" \/ stg.rbf = "multiquadric" THEN 0
    ELSE -1

\* get_size_P_matrix taking every other name for a kernel of tail size 1
get_size_P_matrix_default_one(stg, n) ==
    IF stg.rbf = "cubic" \/ stg.rbf = "thin_plate_spline" THEN n + 1
    ELSE 1

get_size_P_matrix(stg, n) ==
    IF stg.rbf = "cubic" \/ stg.rbf = "thin_plate_spline" THEN n + 1
    ELSE IF stg.rbf = "linear" \/ stg.rbf = "multiquadric" THEN 1
    ELSE 0

\* Euclidean distance of two points
cdist(p, q) == surd_sqrt(SqDist(p, q))

\* |a| < settings.eps_zero (eps_zero in units of 1/Den)
is_tiny(stg, a) == SLess(SMul(SAbs(a), SInt(Den)), SInt(stg.eps_zero))

get_rbf_matrix(stg, n, k, pos) ==
    IF Len(pos) # k THEN Raise("AssertionError")
    ELSE LET p == get_size_P_matrix(stg, n)
             P(i, c) == IF p = n + 1 /\ c <= n THEN SInt(pos[i][c]) ELSE SInt(1)
             A(i, j) == IF i <= k /\ j <= k THEN rbf_value(stg, cdist(pos[i], pos[j]))
                        ELSE IF i <= k THEN P(i, j - k)
                        ELSE IF j <= k THEN P(j, i - k)
                        ELSE SInt(0)
         IN  IF p # n + 1 /\ p # 1 THEN Raise("ValueError")
             ELSE IF get_rbf_function(stg) \notin {"_cubic", "_linear"}
             THEN Raise("TypeError")
             ELSE Return([i \in 1..(k + p) |-> [j \in 1..(k + p) |->
                             IF is_tiny(stg, A(i, j)) THEN SInt(0) ELSE A(i, j)]])

\* M without row r and column c
Submatrix(M, r, c) ==
    [a \in 1..(Len(M) - 1) |->
        [b \in 1..(Len(M) - 1) |->
            M[IF a < r THEN a ELSE a + 1][IF b < c THEN b ELSE b + 1]]]

\* the adjugate of M: M times Adjugate(M) is SDet(M) times the identity
Adjugate(M) ==
    [i \in 1..Len(M) |-> [j \in 1..Len(M) |->
        IF (i + j) % 2 = 0 THEN SDet(Submatrix(M, j, i))
        ELSE SNeg(SDet(Submatrix(M, j, i)))]]

\* the LAPACK factorisation meets a zero pivot
is_singular(M) == SDet(M) = <<0, 0>>

get_matrix_inverse(stg, Amat) ==
    IF is_singular(Amat) THEN Raise("LinAlgError")
    ELSE LET d == SDet(Amat)
             adj == Adjugate(Amat)
         IN  Return([den |-> d,
                     num |-> [i \in 1..Len(Amat) |-> [j \in 1..Len(Amat) |->
                                 LET a == adj[i][j]
                                 IN  IF SLess(SMul(SAbs(a), SInt(Den)),
                                              SMul(SInt(stg.eps_zero), SAbs(d)))
                                     THEN SInt(0) ELSE a]]])

get_rbf_coefficients(stg, n, k, Amat, node_val) ==
    LET p == get_size_P_matrix(stg, n)
        rhs == [i \in 1..(k + p) |-> IF i <= k THEN SInt(node_val[i]) ELSE SInt(0)]
    IN  IF Len(node_val) # k \/ Len(Amat) # k + p THEN Raise("AssertionError")
        ELSE IF is_singular(Amat) THEN Raise("SystemExit")
        ELSE LET adj == Adjugate(Amat)
                 x == [i \in 1..(k + p) |->
                          SSumTo([j \in 1..(k + p) |->
                                     IF rhs[j] = SInt(0) THEN SInt(0)
                                     ELSE SMul(adj[i][j], rhs[j])],
                                 k + p)]
             IN  Return([den |-> SDet(Amat),
                         rbf_lambda |-> [i \in 1..k |-> x[i]],
                         rbf_h |-> [i \in 1..p |-> x[k + i]]])

\* evaluate_rbf without the constant term rbf_h[-1] of the polynomial
evaluate_rbf_without_constant(stg, point, n, k, pos, coefficients) ==
    LET p == get_size_P_matrix(stg, n)
        rbf_lambda == coefficients.rbf_lambda
        rbf_h == coefficients.rbf_h
    IN  IF Len(point) # n \/ Len(rbf_lambda) # k \/ Len(pos) # k \/ Len(rbf_h) # p
        THEN Raise("AssertionError")
        ELSE IF get_rbf_function(stg) \notin {"_cubic", "_linear"}
        THEN Raise("TypeError")
        ELSE LET part1 == SSumTo([i \in 1..k |->
                              SMul(rbf_lambda[i],
                                   rbf_value(stg, cdist(point, pos[i])))], k)
                 part2 == SSumTo([i \in 1..(p - 1) |->
                              SMul(rbf_h[i], SInt(point[i]))], p - 1)
             IN  Return([den |-> coefficients.den, num |-> SAdd(part1, part2)])

\* evaluate_rbf on the coefficients as get_rbf_coefficients gives them here,
\* numerators over the common denominator den: the value is num / den
evaluate_rbf(stg, point, n, k, pos, coefficients) ==
    LET p == get_size_P_matrix(stg, n)
        rbf_lambda == coefficients.rbf_lambda
        rbf_h == coefficients.rbf_h
    IN  IF Len(point) # n \/ Len(rbf_lambda) # k \/ Len(pos) # k \/ Len(rbf_h) # p
        THEN Raise("AssertionError")
        ELSE IF get_rbf_function(stg) \notin {"_cubic", "_linear"}
        THEN Raise("TypeError")
        ELSE LET part1 == SSumTo([i \in 1..k |->
                              SMul(rbf_lambda[i],
                                   rbf_value(stg, cdist(point, pos[i])))], k)
                 part2 == SSumTo([i \in 1..(p - 1) |->
                              SMul(rbf_h[i], SInt(point[i]))], p - 1)
             IN  Return([den |-> coefficients.den,
                         num |-> SAdd(SAdd(part1, part2),
                                      IF p > 0 THEN rbf_h[p] ELSE SInt(0))])

CallGetDegreePolynomial ==
    /\ solve.fn = "kernel" /\ solve.degree = Pending
    /\ solve' = [solve EXCEPT !.degree = Return(get_degree_polynomial(solve.settings))]
    /\ UNCHANGED notSolve

CallGetSizePMatrix ==
    /\ solve.fn = "kernel" /\ solve.size_P = Pending
    /\ solve' = [solve EXCEPT !.size_P =
                    Return(get_size_P_matrix(solve.settings, solve.n))]
    /\ UNCHANGED notSolve

CallGetRbfMatrix ==
    /\ solve.fn = "rbf_system" /\ solve.Amat = Pending
    /\ solve' = [solve EXCEPT !.Amat =
                    get_rbf_matrix(solve.settings, solve.n, solve.k, solve.node_pos)]
    /\ UNCHANGED notSolve

\* a caller that wants the inverse asks for it before it solves the system
CallGetMatrixInverse ==
    /\ solve.fn = "rbf_system" /\ Returned(solve.Amat) /\ solve.Amatinv = Pending
    /\ solve.coefficients = Pending
    /\ solve' = [solve EXCEPT !.Amatinv =
                    get_matrix_inverse(solve.settings, solve.Amat.val)]
    /\ UNCHANGED notSolve

CallGetRbfCoefficients ==
    /\ solve.fn = "rbf_system" /\ Returned(solve.Amat)
    /\ solve.coefficients = Pending
    /\ solve' = [solve EXCEPT !.coefficients =
                    get_rbf_coefficients(solve.settings, solve.n, solve.k,
                                         solve.Amat.val, solve.node_val)]
    /\ UNCHANGED notSolve

\* the interpolant is evaluated at the nodes, one after the other
CallEvaluateRbf ==
    /\ solve.fn = "rbf_system" /\ Returned(solve.coefficients)
    /\ Len(solve.values) < solve.k
    /\ solve' = [solve EXCEPT !.values =
          Append(@, evaluate_rbf(solve.settings,
                                 solve.node_pos[Len(solve.values) + 1],
                                 solve.n, solve.k, solve.node_pos,
                                 solve.coefficients.val))]
    /\ UNCHANGED notSolve

\* the systems on a line: up to MaxSolveNodes nodes, repeated nodes included
InitLineSystem ==
    \E name \in RbfNames, eps \in EpsZeroValues, k \in 1..MaxSolveNodes :
        \E pos \in [1..k -> 0..MaxCoord], val \in [1..k -> 0..MaxVal] :
            solve = [fn |-> "rbf_system",
                     settings |-> [rbf |-> name, eps_zero |-> eps],
                     n |-> 1, k |-> k,
                     node_pos |-> [i \in 1..k |-> <<pos[i]>>],
                     node_val |-> val,
                     Amat |-> Pending, Amatinv |-> Pending,
                     coefficients |-> Pending, values |-> <<>>]

\* the nodes of the systems in the plane: the corners of the unit square and
\* a third point on its upper side
PlanarPoints == {<<0, 0>>, <<1, 0>>, <<0, 1>>, <<1, 1>>, <<2, 1>>}

\* the function values at three nodes
PlanarValues == {<<1, 3, 2>>, <<0, 0, 1>>}

\* the systems in the plane: three nodes, repeated and collinear nodes
\* included, whose distances are of the form a + b * sqrt(2)
InitPlanarSystem ==
    \E name \in RbfNames :
        \E pos \in [1..3 -> PlanarPoints], val \in PlanarValues :
            /\ \A i, j \in 1..3 : HasSurdRoot(SqDist(pos[i], pos[j]))
            /\ solve = [fn |-> "rbf_system",
                        settings |-> [rbf |-> name, eps_zero |-> 0],
                        n |-> 2, k |-> 3,
                        node_pos |-> pos, node_val |-> val,
                        Amat |-> Pending, Amatinv |-> Pending,
                        coefficients |-> Pending, values |-> <<>>]

InitSystem == InitLineSystem \/ InitPlanarSystem

\* the questions about a kernel name: its degree and its tail size in dimension n
InitKernel ==
    \E name \in KernelNames, n \in 1..MaxNodes :
        solve = [fn |-> "kernel", settings |-> [rbf |-> name], n |-> n,
                 degree |-> Pending, size_P |-> Pending]

InitSolve ==
    /\ InitSystem \/ InitKernel
    /\ round_call = NoCall /\ transform = NoCall /\ design = NoCall
    /\ SchedIdle /\ PoolIdle /\ BoxIdle /\ NodesIdle

NextSolve ==
    \/ CallGetDegreePolynomial
    \/ CallGetSizePMatrix
    \/ CallGetRbfMatrix
    \/ CallGetMatrixInverse
    \/ CallGetRbfCoefficients
    \/ CallEvaluateRbf
SpecSolve == InitSolve /\ [][NextSolve]_vars

\* ------------------------------------------------------------------------
\* Claims about the solvers
\* ------------------------------------------------------------------------

\* get_rbf_coefficients was called on a matrix the solve fails on
SolveFailed ==
    /\ solve.fn = "rbf_system" /\ Returned(solve.Amat)
    /\ is_singular(solve.Amat.val)
    /\ solve.coefficients # Pending

\* C9: a failure of the linear solve in get_rbf_coefficients reaches the caller
\* as the numerical-failure exception (LinAlgError) that the caller can catch,
\* the same exception get_matrix_inverse re-raises on the same matrix; the
\* function neither returns as if nothing happened nor ends the process.
C9_SolveFailurePropagated ==
    SolveFailed =>
        /\ solve.coefficients = Raise("LinAlgError")
        /\ solve.Amatinv # Pending => solve.Amatinv = solve.coefficients

\* the kernel name of the settings is none of the four kernels
UnrecognizedKernel ==
    solve.settings.rbf \notin {"cubic", "thin_plate_spline", "linear", "multiquadric"}

\* C11: a kernel name that is not recognized is never taken for a kernel:
\* get_degree_polynomial returns -1, get_size_P_matrix returns 0, and
\* get_rbf_matrix, whenever the tail size p is neither n+1 nor 1, raises
\* ValueError and returns no matrix.
C11_UnrecognizedKernelRejected ==
    /\ (solve.fn = "kernel" /\ UnrecognizedKernel) =>
           /\ solve.degree # Pending => solve.degree = Return(-1)
           /\ solve.size_P # Pending => solve.size_P = Return(0)
    /\ (solve.fn = "rbf_system" /\ solve.Amat # Pending) =>
           /\ UnrecognizedKernel => solve.Amat = Raise("ValueError")
           /\ (get_size_P_matrix(solve.settings, solve.n) \notin {solve.n + 1, 1})
                  => solve.Amat = Raise("ValueError")
           /\ Returned(solve.Amat) => ~UnrecognizedKernel

\* get_rbf_matrix was called with settings that name no kernel
C11_Witness ==
    /\ solve.fn = "rbf_system" /\ UnrecognizedKernel
    /\ solve.k = 2 /\ solve.Amat = Raise("ValueError")

\* the two questions about a kernel name are answered
KernelAnswered ==
    /\ solve.fn = "kernel"
    /\ solve.degree # Pending /\ solve.size_P # Pending

\* C17: for each of the four kernels and every n >= 1, get_size_P_matrix and
\* get_degree_polynomial agree: the tail size is n+1 exactly when the degree
\* is 1, and it is 1 exactly when the degree is 0.
C17_TailSizeAgreesWithDegree ==
    (KernelAnswered /\ ~UnrecognizedKernel) =>
        /\ solve.size_P.val = solve.n + 1 <=> solve.degree.val = 1
        /\ solve.size_P.val = 1 <=> solve.degree.val = 0
        /\ solve.degree.val \in {0, 1}

\* thin_plate_spline asked about in dimension 2: degree 1, tail size 3
C17_Witness ==
    /\ KernelAnswered /\ solve.settings.rbf = "thin_plate_spline"
    /\ solve.n = 2 /\ solve.degree = Return(1) /\ solve.size_P = Return(3)

\* a system of a kernel the model evaluates
SupportedSystem ==
    solve.fn = "rbf_system" /\ solve.settings.rbf \in {"cubic", "linear"}

\* the test of initialize_nodes on the nodes of the system: the smallest
\* singular value of node_pos exceeds settings.eps_zero
FullColumnRank ==
    min_singular_value_exceeds(
        [i \in 1..solve.k |-> [j \in 1..solve.n |-> Den * solve.node_pos[i][j]]],
        solve.n, solve.settings.eps_zero)

\* the rows a of the nodes with a 1 appended
WithOne(a) == [j \in 1..(solve.n + 1) |->
                  IF j <= solve.n THEN solve.node_pos[a][j] ELSE 1]

\* the nodes are pairwise distinct and, for a kernel with a linear tail,
\* n + 1 of them are affinely independent
Unisolvent ==
    /\ \A a, b \in 1..solve.k : a # b => solve.node_pos[a] # solve.node_pos[b]
    /\ get_size_P_matrix(solve.settings, solve.n) = solve.n + 1 =>
          \E rows \in [1..(solve.n + 1) -> 1..solve.k] :
              Det([r \in 1..(solve.n + 1) |-> WithOne(rows[r])]) # 0

\* the system was built and solved, and every value that evaluate_rbf has
\* returned so far is the function value of its node
NodesReproduced ==
    /\ solve.Amat # Pending =>
          /\ Returned(solve.Amat)
          /\ Len(solve.Amat.val) =
                 solve.k + get_size_P_matrix(solve.settings, solve.n)
    /\ solve.coefficients # Pending => Returned(solve.coefficients)
    /\ \A i \in 1..Len(solve.values) :
          /\ Returned(solve.values[i])
          /\ solve.values[i].val.den # SInt(0)
          /\ solve.values[i].val.num =
                 SMul(SInt(solve.node_val[i]), solve.values[i].val.den)

\* the example: the lower corners of the unit square under the linear kernel
ExampleSystem ==
    /\ solve.fn = "rbf_system" /\ solve.settings.rbf = "linear" /\ solve.n = 2
    /\ solve.node_pos = <<<<0, 0>>, <<1, 0>>, <<0, 1>>>>
    /\ solve.node_val = <<1, 3, 2>>

InitializeNodesEnded == pc \in {"returned", "raised"}

\* the last attempt made produced a linearly independent set
LastAttemptIndependent ==
    min_singular_value_exceeds(nodes, Len(var_lower), settings.eps_zero)

\* C5: initialize_nodes raises RuntimeError if and only if no linearly
\* independent node set was produced within the MAX_RANDOM_INIT permitted
\* attempts; whenever an attempt within the cap, the last one included, yields
\* a set whose smallest singular value exceeds eps_zero, that set is returned
\* and no error is raised.
C5_RaisesIffNoIndependentSet ==
    InitializeNodesEnded =>
        /\ pc = "raised" <=> ~LastAttemptIndependent
        /\ LastAttemptIndependent => pc = "returned"

\* C6: every node set that initialize_nodes returns is the set generated in
\* the last attempt with its integer-constrained coordinates rounded to the
\* nearest integer, and that rounded set passed the linear-independence check;
\* a set that failed the check is never returned.
C6_ReturnedSetPassedCheck ==
    pc = "returned" =>
        /\ ~dependent
        /\ itercount \in 1..MAX_RANDOM_INIT
        /\ Len(nodes) = Len(generated)
        /\ \A i \in 1..Len(nodes), j \in 1..Len(var_lower) :
              /\ j \notin integer_vars => nodes[i][j] = generated[i][j]
              /\ j \in integer_vars =>
                    /\ nodes[i][j] % Den = 0
                    /\ 2 * (nodes[i][j] - generated[i][j]) \in (0 - Den)..Den
        /\ LastAttemptIndependent

\* a set returned by a later attempt, after rounding changed it
C6_Witness ==
    /\ pc = "returned"
    /\ itercount >= 2
    /\ integer_vars # {}
    /\ nodes # generated

\* ------------------------------------------------------------------------
\* Readiness polling of asynchronous results
\* ------------------------------------------------------------------------

\* res[0].ready() of every task of the list, in list order
ReadyFlags == [i \in 1..Len(results) |-> results[i] \in ready]

\* for res in results: if res[0].ready(): return True -- but looking at the
\* first task only
results_ready_first_only(flags) == Len(flags) > 0 /\ flags[1]

RECURSIVE results_ready_from(_, _)
results_ready_from(flags, i) ==
    IF i > Len(flags) THEN FALSE
    ELSE IF flags[i] THEN TRUE
    ELSE results_ready_from(flags, i + 1)

results_ready(flags) == results_ready_from(flags, 1)

\* the scan of get_one_ready_index in list order instead of reversed
RECURSIVE first_ready_from(_, _)
first_ready_from(flags, i) ==
    IF i >= Len(flags) THEN Len(flags)
    ELSE IF flags[i + 1] THEN i
    ELSE first_ready_from(flags, i + 1)

get_first_ready_index(flags) == first_ready_from(flags, 0)

\* for i in reversed(range(len(results))), i being the 0-based index
RECURSIVE last_ready_from(_, _)
last_ready_from(flags, i) ==
    IF i < 0 THEN Len(flags)
    ELSE IF flags[i + 1] THEN i
    ELSE last_ready_from(flags, i - 1)

get_one_ready_index(flags) == last_ready_from(flags, Len(flags) - 1)

\* s without its element at (1-based) position i: results.pop(i - 1)
RemoveAt(s, i) == [j \in 1..(Len(s) - 1) |-> IF j < i THEN s[j] ELSE s[j + 1]]

\* s without the elements equal to x
RECURSIVE Without(_, _)
Without(s, x) ==
    IF s = <<>> THEN <<>>
    ELSE IF Head(s) = x THEN Without(Tail(s), x)
    ELSE <<Head(s)>> \o Without(Tail(s), x)

\* the caller dispatches a computation to the pool and appends its handle
Dispatch ==
    /\ next_id <= MaxTasks
    /\ results' = Append(results, next_id)
    /\ next_id' = next_id + 1
    /\ UNCHANGED <<ready, completed, ready_ret, index_ret>> /\ UNCHANGED notPool

\* a dispatched computation concludes: its handle is ready from now on
Complete(t) ==
    /\ t \notin ready
    /\ \E i \in 1..Len(results) : results[i] = t
    /\ ready' = ready \cup {t}
    /\ completed' = Append(completed, t)
    /\ UNCHANGED <<results, next_id, ready_ret, index_ret>> /\ UNCHANGED notPool

CallResultsReady ==
    /\ ready_ret' = [fn |-> "results_ready", flags |-> ReadyFlags,
                     ret |-> results_ready(ReadyFlags)]
    /\ UNCHANGED <<results, ready, completed, next_id, index_ret>> /\ UNCHANGED notPool

CallGetOneReadyIndex ==
    /\ index_ret' = [fn |-> "get_one_ready_index", results |-> results,
                      flags |-> ReadyFlags, completed |-> completed,
                      ret |-> get_one_ready_index(ReadyFlags)]
    /\ UNCHANGED <<results, ready, completed, next_id, ready_ret>> /\ UNCHANGED notPool

\* the caller pops the task whose index get_one_ready_index returned
Pop ==
    /\ index_ret # NoCall
    /\ index_ret.results = results
    /\ index_ret.ret < Len(results)
    /\ LET t == results[index_ret.ret + 1]
       IN  /\ results' = RemoveAt(results, index_ret.ret + 1)
           /\ ready' = ready \ {t}
           /\ completed' = Without(completed, t)
    /\ index_ret' = NoCall
    /\ ready_ret' = NoCall
    /\ UNCHANGED <<next_id>> /\ UNCHANGED notPool

InitPool == PoolIdle /\ SchedIdle /\ BoxIdle /\ NodesIdle /\ CallsIdle
NextPool ==
    \/ Dispatch
    \/ \E t \in 1..MaxTasks : Complete(t)
    \/ CallResultsReady
    \/ CallGetOneReadyIndex
    \/ Pop
SpecPool == InitPool /\ [][NextPool]_vars

\* ------------------------------------------------------------------------
\* Claims about readiness polling
\* ------------------------------------------------------------------------

SomeReady(flags) == \E i \in DOMAIN flags : flags[i]
NumReady(flags) == Cardinality({i \in DOMAIN flags : flags[i]})

\* C3: results_ready is true exactly when at least one handle is ready;
\* get_one_ready_index returns len(results) exactly when none is ready and
\* otherwise an index below len(results) of a ready handle; on one and the
\* same readiness snapshot results_ready holds iff the index is below
\* len(results).
C3_ReadyIffIndexInRange ==
    /\ ready_ret # NoCall => (ready_ret.ret <=> SomeReady(ready_ret.flags))
    /\ index_ret # NoCall =>
          /\ index_ret.ret \in 0..Len(index_ret.flags)
          /\ index_ret.ret = Len(index_ret.flags) <=> ~SomeReady(index_ret.flags)
          /\ index_ret.ret < Len(index_ret.flags) =>
                index_ret.flags[index_ret.ret + 1]
    /\ (ready_ret # NoCall /\ index_ret # NoCall
        /\ ready_ret.flags = index_ret.flags) =>
          (ready_ret.ret <=> index_ret.ret < Len(index_ret.flags))

C3_Witness ==
    /\ ready_ret # NoCall /\ index_ret # NoCall
    /\ ready_ret.flags = index_ret.flags
    /\ Len(index_ret.flags) = 3
    /\ index_ret.flags = <<FALSE, TRUE, FALSE>>
    /\ ready_ret.ret /\ index_ret.ret = 1

C3_WitnessNoneReady ==
    /\ ready_ret # NoCall /\ index_ret # NoCall
    /\ ready_ret.flags = index_ret.flags
    /\ Len(index_ret.flags) = 2
    /\ ~ready_ret.ret /\ index_ret.ret = 2

SeveralReady == index_ret # NoCall /\ NumReady(index_ret.flags) >= 2

\* C4 as claimed: when several dispatched computations are ready,
\* get_one_ready_index returns the index of the one that completed most
\* recently, for every order in which the handles become ready.
C4_ReturnsMostRecentlyCompleted ==
    SeveralReady =>
        /\ index_ret.ret < Len(index_ret.results)
        /\ index_ret.results[index_ret.ret + 1] =
              index_ret.completed[Len(index_ret.completed)]

\* C4 as amended: when several dispatched computations are ready,
\* get_one_ready_index returns the largest list index whose handle is ready
\* (the last ready task of the list), for every order in which the handles
\* become ready.
C4_ReturnsLastReadyInList ==
    SeveralReady =>
        /\ index_ret.ret < Len(index_ret.flags)
        /\ index_ret.flags[index_ret.ret + 1]
        /\ \A j \in DOMAIN index_ret.flags :
              j > index_ret.ret + 1 => ~index_ret.flags[j]

\* several are ready and the one returned is not the last to have completed
C4_Witness ==
    /\ SeveralReady
    /\ index_ret.ret < Len(index_ret.results)
    /\ index_ret.results[index_ret.ret + 1] #
          index_ret.completed[Len(index_ret.completed)]
    /\ \E j \in DOMAIN index_ret.flags : ~index_ret.flags[j]

\* ------------------------------------------------------------------------
\* Scheduling arithmetic
\* ------------------------------------------------------------------------

\* int(a / b): the quotient truncated toward zero instead of floored
TruncDiv(a, b) == IF a >= 0 THEN a \div b ELSE 0 - ((0 - a) \div b)

\* int(math.ceil(a / b)): the quotient rounded up instead of floored
CeilDiv(a, b) == 0 - ((0 - a) \div b)

\* int(math.floor(a / b)) under true division, b > 0
FloorDiv(a, b) == a \div b

RECURSIVE get_sigma_n(_, _, _, _)
get_sigma_n(k, current_step, num_global_searches, num_initial_points) ==
    IF current_step < 1 \/ num_global_searches < 0 THEN Raise("AssertionError")
    ELSE IF current_step = 1 THEN Return(k - 1)
    ELSE LET prev == get_sigma_n(k, current_step - 1, num_global_searches,
                                 num_initial_points)
         IN  IF ~Returned(prev) THEN prev
             ELSE IF num_global_searches = 0 THEN Raise("ZeroDivisionError")
             ELSE Return(prev.val
                         - FloorDiv(k - num_initial_points, num_global_searches))

\* np.sort: ascending insertion of x into a sorted sequence, then the sort
RECURSIVE InsertSorted(_, _)
InsertSorted(x, s) ==
    IF s = <<>> THEN <<x>>
    ELSE IF x <= Head(s) THEN <<x>> \o s
    ELSE <<Head(s)>> \o InsertSorted(x, Tail(s))

RECURSIVE np_sort(_)
np_sort(s) == IF s = <<>> THEN <<>> ELSE InsertSorted(Head(s), np_sort(Tail(s)))

\* a[i] on a Python sequence (0-based; a negative index counts from the end)
PyIndex(a, i) ==
    IF 0 <= i /\ i < Len(a) THEN Return(a[i + 1])
    ELSE IF -Len(a) <= i /\ i < 0 THEN Return(a[Len(a) + i + 1])
    ELSE Raise("IndexError")

num_initial_points_of(init_strategy, n) ==
    IF init_strategy = "all_corners" THEN Pow2(n) ELSE n + 1

get_fmax_current_iter_no_guard(stg, n, k, current_step, node_val) ==
    IF k # Len(node_val) \/ k < 1 \/ current_step < 1 THEN Raise("AssertionError")
    ELSE LET s_n == get_sigma_n(k, current_step, stg.num_global_searches,
                                num_initial_points_of(stg.init_strategy, n))
         IN  IF ~Returned(s_n) THEN s_n ELSE PyIndex(np_sort(node_val), s_n.val)

get_fmax_current_iter(stg, n, k, current_step, node_val) ==
    IF k # Len(node_val) \/ k < 1 \/ current_step < 1 THEN Raise("AssertionError")
    ELSE LET num_initial_points == num_initial_points_of(stg.init_strategy, n)
         IN  IF k < num_initial_points THEN Raise("AssertionError")
             ELSE LET sorted_node_val == np_sort(node_val)
                      s_n == get_sigma_n(k, current_step,
                                         stg.num_global_searches,
                                         num_initial_points)
                  IN  IF ~Returned(s_n) THEN s_n
                      ELSE PyIndex(sorted_node_val, s_n.val)

\* The calls of the scheduling arithmetic that the model makes
SigmaNCalls(pending) ==
    [fn : {"get_sigma_n"}, k : 0..MaxK, current_step : 0..MaxStep,
     num_global_searches : -1..MaxGS, num_initial_points : 1..MaxNip,
     ret : {pending}]

FmaxCalls(pending) ==
    {[fn |-> "get_fmax_current_iter",
      settings |-> [init_strategy |-> c.init_strategy,
                    num_global_searches |-> c.num_global_searches],
      n |-> c.n, k |-> Len(c.node_val) + c.dk, current_step |-> c.current_step,
      node_val |-> c.node_val, ret |-> pending] :
        c \in [n : 1..MaxN, init_strategy : InitStrategies,
               node_val : SeqsOf(0..MaxVal, 0, MaxNodes), dk : {0, 1},
               current_step : 0..MaxStep, num_global_searches : 0..MaxGS]}

CallGetSigmaN ==
    /\ UNCHANGED notSched
    /\ sched.fn = "get_sigma_n" /\ sched.ret = Pending
    /\ sched' = [sched EXCEPT !.ret =
                    get_sigma_n(sched.k, sched.current_step,
                                sched.num_global_searches,
                                sched.num_initial_points)]

CallGetFmaxCurrentIter ==
    /\ UNCHANGED notSched
    /\ sched.fn = "get_fmax_current_iter" /\ sched.ret = Pending
    /\ sched' = [sched EXCEPT !.ret =
                    get_fmax_current_iter(sched.settings, sched.n, sched.k,
                                          sched.current_step, sched.node_val)]

InitSched ==
    /\ sched \in SigmaNCalls(Pending) \cup FmaxCalls(Pending)
    /\ PoolIdle /\ BoxIdle /\ NodesIdle /\ CallsIdle
NextSched == CallGetSigmaN \/ CallGetFmaxCurrentIter
SpecSched == InitSched /\ [][NextSched]_vars

\* ------------------------------------------------------------------------
\* Claims about the scheduling arithmetic
\* ------------------------------------------------------------------------

\* q is floor(a / b) for b > 0
IsFloorOf(q, a, b) == q * b <= a /\ a < (q + 1) * b

SigmaNDone ==
    /\ sched.fn = "get_sigma_n" /\ sched.ret # Pending
    /\ sched.current_step >= 1 /\ sched.num_global_searches >= 1

\* C1: for every k, current_step >= 1 and num_global_searches >= 1,
\* get_sigma_n returns k-1 when current_step = 1 and otherwise the value for
\* current_step-1 minus floor((k - num_initial_points)/num_global_searches),
\* that is k-1-(current_step-1)*floor(...); (10,1,3,3) gives 9 and (10,2,3,3)
\* gives 7.
C1_SigmaNClosedForm ==
    SigmaNDone =>
        /\ Returned(sched.ret)
        /\ sched.current_step = 1 => sched.ret.val = sched.k - 1
        /\ \E q \in (0 - sched.num_initial_points)..sched.k :
              /\ IsFloorOf(q, sched.k - sched.num_initial_points,
                           sched.num_global_searches)
              /\ sched.ret.val = sched.k - 1 - (sched.current_step - 1) * q
              /\ sched.current_step > 1 =>
                    sched.ret.val =
                        get_sigma_n(sched.k, sched.current_step - 1,
                                    sched.num_global_searches,
                                    sched.num_initial_points).val - q
        /\ (sched.k = 10 /\ sched.num_global_searches = 3
            /\ sched.num_initial_points = 3) =>
              /\ sched.current_step = 1 => sched.ret.val = 9
              /\ sched.current_step = 2 => sched.ret.val = 7

C1_Witness ==
    /\ SigmaNDone
    /\ sched.k = 10 /\ sched.current_step = 2
    /\ sched.num_global_searches = 3 /\ sched.num_initial_points = 3
    /\ sched.ret = Return(7)

\* v is the element at (0-based) position pos of node_val sorted ascending
IsSortedElementAt(node_val, pos, v) ==
    /\ \E i \in DOMAIN node_val : node_val[i] = v
    /\ Cardinality({i \in DOMAIN node_val : node_val[i] < v}) <= pos
    /\ pos < Cardinality({i \in DOMAIN node_val : node_val[i] <= v})

\* a call of get_fmax_current_iter whose other preconditions hold and whose
\* sigma_n is defined
FmaxDone ==
    /\ sched.fn = "get_fmax_current_iter" /\ sched.ret # Pending
    /\ sched.k = Len(sched.node_val) /\ sched.k >= 1 /\ sched.current_step >= 1
    /\ sched.settings.num_global_searches >= 1

\* C2: get_fmax_current_iter returns the element at position sigma_n of
\* node_val sorted ascending (a Python position: a negative one counts from
\* the end, one outside the array is an IndexError), with num_initial_points
\* 2^n under 'all_corners' and n+1 otherwise; a call with
\* k < num_initial_points fails its precondition instead of returning.
C2_FmaxIsSortedAtSigmaN ==
    FmaxDone =>
        LET nip == IF sched.settings.init_strategy = "all_corners"
                   THEN Pow2(sched.n) ELSE sched.n + 1
            k == sched.k
        IN  IF k < nip THEN sched.ret = Raise("AssertionError")
            ELSE \E q \in 0..k :
                    /\ IsFloorOf(q, k - nip, sched.settings.num_global_searches)
                    /\ LET s_n == k - 1 - (sched.current_step - 1) * q
                       IN  IF s_n >= k \/ s_n < 0 - k
                           THEN sched.ret = Raise("IndexError")
                           ELSE /\ Returned(sched.ret)
                                /\ IsSortedElementAt(
                                       sched.node_val,
                                       IF s_n >= 0 THEN s_n ELSE k + s_n,
                                       sched.ret.val)

\* a returned threshold that is not the element at that position of the
\* unsorted array, and a rejected call
C2_Witness ==
    /\ FmaxDone
    /\ sched.n = 2 /\ sched.settings.init_strategy = "lower_corners"
    /\ sched.node_val = <<1, 1, 0, 0>> /\ sched.current_step = 2
    /\ sched.settings.num_global_searches = 1
    /\ sched.ret = Return(1)

C2_WitnessRejected ==
    /\ FmaxDone
    /\ sched.n = 2 /\ sched.settings.init_strategy = "all_corners"
    /\ sched.k = 3 /\ sched.ret = Raise("AssertionError")

\* a call of get_sigma_n within the cycle: k >= num_initial_points >= 1,
\* num_global_searches >= 1 and 1 <= current_step <= num_global_searches + 1
SigmaNInCycle ==
    /\ sched.fn = "get_sigma_n" /\ sched.ret # Pending
    /\ sched.k >= sched.num_initial_points /\ sched.num_initial_points >= 1
    /\ sched.num_global_searches >= 1
    /\ 1 <= sched.current_step
    /\ sched.current_step <= sched.num_global_searches + 1

\* a call of get_fmax_current_iter within the cycle
FmaxInCycle ==
    /\ sched.fn = "get_fmax_current_iter" /\ sched.ret # Pending
    /\ sched.k = Len(sched.node_val)
    /\ sched.k >= num_initial_points_of(sched.settings.init_strategy, sched.n)
    /\ sched.settings.num_global_searches >= 1
    /\ 1 <= sched.current_step
    /\ sched.current_step <= sched.settings.num_global_searches + 1

\* C22: for k >= num_initial_points >= 1, num_global_searches >= 1 and
\* 1 <= current_step <= num_global_searches + 1, get_sigma_n returns an index
\* in [num_initial_points - 1, k - 1], and get_fmax_current_iter returns the
\* element of the sorted values at that position, which is neither negative
\* nor past the end.
C22_SigmaNWithinRange ==
    /\ SigmaNInCycle =>
          /\ Returned(sched.ret)
          /\ sched.num_initial_points - 1 <= sched.ret.val
          /\ sched.ret.val <= sched.k - 1
    /\ FmaxInCycle =>
          LET nip == num_initial_points_of(sched.settings.init_strategy, sched.n)
          IN  /\ Returned(sched.ret)
              /\ \E q \in 0..sched.k :
                    /\ IsFloorOf(q, sched.k - nip,
                                 sched.settings.num_global_searches)
                    /\ LET s_n == sched.k - 1 - (sched.current_step - 1) * q
                       IN  /\ nip - 1 <= s_n /\ s_n <= sched.k - 1
                           /\ sched.ret.val = np_sort(sched.node_val)[s_n + 1]

\* the last step of a cycle, where the index reaches num_initial_points - 1
C22_Witness ==
    /\ SigmaNInCycle
    /\ sched.k = 9 /\ sched.num_initial_points = 3
    /\ sched.num_global_searches = 3 /\ sched.current_step = 4
    /\ sched.ret = Return(2)

\* the last step of a cycle of get_fmax_current_iter: position 1 of the
\* sorted values, not position -1
C22_WitnessFmax ==
    /\ FmaxInCycle
    /\ sched.n = 1 /\ sched.node_val = <<1, 0, 0, 1>>
    /\ sched.settings.num_global_searches = 1 /\ sched.current_step = 2
    /\ sched.ret = Return(0)

\* a call of get_sigma_n that passes both assertions of the function
SigmaNRequirementsMet ==
    /\ sched.fn = "get_sigma_n" /\ sched.ret # Pending
    /\ sched.current_step >= 1 /\ sched.num_global_searches >= 0

\* C24 as stated: get_sigma_n returns an integer for every input with
\* current_step >= 1 and num_global_searches >= 0, and a call with
\* num_global_searches = 0 is free of errors only when current_step = 1.
C24_SigmaNNeverFails ==
    SigmaNRequirementsMet =>
        /\ Returned(sched.ret) /\ sched.ret.val \in Int
        /\ sched.num_global_searches = 0 =>
              (Returned(sched.ret) <=> sched.current_step = 1)

\* ------------------------------------------------------------------------
\* The transform pipeline: transform_domain, bulk_transform_domain,
\* transform_domain_bounds, transform_function_values.  A real number is a
\* fraction <<numerator, denominator>> in lowest terms with a positive
\* denominator.  A float is a binary floating-point number with MantBits
\* significant bits and no bound on its exponent; every arithmetic operation
\* of the code rounds its exact result to the nearest float, ties to even.
\* ------------------------------------------------------------------------

RECURSIVE GCD(_, _)
GCD(a, b) == IF b = 0 THEN a ELSE GCD(b, a % b)

Q(n, d) ==
    LET g == GCD(Abs(n), Abs(d))
        sgn == IF d < 0 THEN -1 ELSE 1
    IN  <<(sgn * n) \div g, (sgn * d) \div g>>

RAdd(a, b) == Q(a[1] * b[2] + b[1] * a[2], a[2] * b[2])
RSub(a, b) == Q(a[1] * b[2] - b[1] * a[2], a[2] * b[2])
RMul(a, b) == Q(a[1] * b[1], a[2] * b[2])
RDiv(a, b) == Q(a[1] * b[2], a[2] * b[1])
RNeg(a) == <<0 - a[1], a[2]>>
RAbs(a) == <<Abs(a[1]), a[2]>>
RLess(a, b) == a[1] * b[2] < b[1] * a[2]
RMin(a, b) == IF RLess(b, a) THEN b ELSE a
RMax(a, b) == IF RLess(a, b) THEN b ELSE a

\* n / d (n >= 0, d > 0) rounded to the nearest integer, ties to even
RoundHalfEven(n, d) ==
    LET q == n \div d
        r == n % d
    IN  IF 2 * r < d THEN q
        ELSE IF 2 * r > d THEN q + 1
        ELSE IF q % 2 = 0 THEN q ELSE q + 1

\* the float nearest to n / d > 0: scale into [2^(MantBits-1), 2^MantBits),
\* round to an integer, scale back
RECURSIVE FlPositive(_, _)
FlPositive(n, d) ==
    IF n < Pow2(MantBits - 1) * d
    THEN LET y == FlPositive(2 * n, d) IN Q(y[1], 2 * y[2])
    ELSE IF n >= Pow2(MantBits) * d
    THEN LET y == FlPositive(n, 2 * d) IN Q(2 * y[1], y[2])
    ELSE Q(RoundHalfEven(n, d), 1)

\* the float nearest to x
Fl(x) ==
    IF x[1] = 0 THEN x
    ELSE IF x[1] < 0 THEN RNeg(FlPositive(0 - x[1], x[2]))
    ELSE FlPositive(x[1], x[2])

\* the arithmetic of floats
FAdd(a, b) == Fl(RAdd(a, b))
FSub(a, b) == Fl(RSub(a, b))
FMul(a, b) == Fl(RMul(a, b))
FDiv(a, b) == Fl(RDiv(a, b))

\* the float of x units of 1/Den (a function value)
Units(x) == Fl(Q(x, Den))

\* the float of x units of 1/Grid (a coordinate)
Coord(x) == Fl(Q(x, Grid))

\* the mode names given in the settings; "none" is not a mode of any of them
DomainScalings == {"off", "affine", "none"}
FunctionScalings == {"off", "affine", "log", "none"}
DynamismClippings == {"off", "median", "clip_at_dyn", "none"}
DynamismThresholds == {1, 2}    \* settings.dynamism_threshold, in units of 1/Den
NodeCounts == {1, 2}            \* lengths of node_val

\* x - y on arrays of the same length
ArrSub(x, y) == [i \in 1..Len(x) |-> FSub(x[i], y[i])]

\* transform_domain whose reverse branch leaves out "+ var_lower"
transform_domain_unshifted(stg, lower, upper, point, reverse) ==
    IF Len(lower) # Len(upper) \/ Len(lower) # Len(point)
    THEN Raise("AssertionError")
    ELSE IF stg.domain_scaling = "off" THEN Return(point)
    ELSE IF stg.domain_scaling = "affine"
    THEN IF reverse
         THEN Return([i \in 1..Len(point) |->
                         FMul(point[i], FSub(upper[i], lower[i]))])
         ELSE LET diff == ArrSub(upper, lower)
                  var_diff == [i \in 1..Len(diff) |->
                                  IF diff[i] = Q(0, 1) THEN Q(1, 1) ELSE diff[i]]
              IN  Return([i \in 1..Len(point) |->
                             FDiv(FSub(point[i], lower[i]), var_diff[i])])
    ELSE Raise("ValueError")

\* the arrays given to transform_domain as the call leaves them: 'off' copies
\* the point, 'affine' computes into new arrays (var_diff is the new array
\* var_upper - var_lower), so that no branch writes into an argument
transform_domain_arguments(stg, lower, upper, point, reverse) ==
    [var_lower |-> lower, var_upper |-> upper, point |-> point]

transform_domain(stg, lower, upper, point, reverse) ==
    IF Len(lower) # Len(upper) \/ Len(lower) # Len(point)
    THEN Raise("AssertionError")
    ELSE IF stg.domain_scaling = "off" THEN Return(point)
    ELSE IF stg.domain_scaling = "affine"
    THEN IF reverse
         THEN Return([i \in 1..Len(point) |->
                         FAdd(FMul(point[i], FSub(upper[i], lower[i])), lower[i])])
         ELSE LET diff == ArrSub(upper, lower)
                  var_diff == [i \in 1..Len(diff) |->
                                  IF diff[i] = Q(0, 1) THEN Q(1, 1) ELSE diff[i]]
              IN  Return([i \in 1..Len(point) |->
                             FDiv(FSub(point[i], lower[i]), var_diff[i])])
    ELSE Raise("ValueError")

bulk_transform_domain(stg, lower, upper, points, reverse) ==
    IF Len(lower) # Len(upper) \/ Len(lower) # Len(points[1])
    THEN Raise("AssertionError")
    ELSE IF stg.domain_scaling = "off" THEN Return(points)
    ELSE IF stg.domain_scaling = "affine"
    THEN IF reverse
         THEN Return([r \in 1..Len(points) |-> [i \in 1..Len(lower) |->
                         FAdd(FMul(points[r][i], FSub(upper[i], lower[i])),
                              lower[i])]])
         ELSE LET diff == ArrSub(upper, lower)
                  var_diff == [i \in 1..Len(diff) |->
                                  IF diff[i] = Q(0, 1) THEN Q(1, 1) ELSE diff[i]]
              IN  Return([r \in 1..Len(points) |-> [i \in 1..Len(lower) |->
                             FDiv(FSub(points[r][i], lower[i]), var_diff[i])]])
    ELSE Raise("ValueError")

transform_domain_bounds(stg, lower, upper) ==
    IF Len(lower) # Len(upper) THEN Raise("AssertionError")
    ELSE IF stg.domain_scaling = "off" THEN Return(<<lower, upper>>)
    ELSE IF stg.domain_scaling = "affine"
    THEN Return(<<[i \in 1..Len(lower) |-> Q(0, 1)],
                  [i \in 1..Len(upper) |-> Q(1, 1)]>>)
    ELSE Raise("ValueError")

get_fast_error_bounds(stg, value) ==
    <<FSub(FMul(RNeg(RAbs(value)), stg.fast_objfun_rel_error),
           stg.fast_objfun_abs_error),
      FAdd(FMul(RAbs(value), stg.fast_objfun_rel_error),
           stg.fast_objfun_abs_error)>>

\* bulk_get_fast_error_bounds with the two stacked rows in the other order
bulk_get_fast_error_bounds_swapped(stg, values) ==
    [r \in 1..Len(values) |->
        <<FAdd(FMul(RAbs(values[r]), stg.fast_objfun_rel_error),
               stg.fast_objfun_abs_error),
          FSub(FMul(RNeg(RAbs(values[r])), stg.fast_objfun_rel_error),
               stg.fast_objfun_abs_error)>>]

\* the transpose of the two stacked rows: row r is (lower, upper) of values[r]
bulk_get_fast_error_bounds(stg, values) ==
    [r \in 1..Len(values) |->
        <<FSub(FMul(RNeg(RAbs(values[r])), stg.fast_objfun_rel_error),
               stg.fast_objfun_abs_error),
          FAdd(FMul(RAbs(values[r]), stg.fast_objfun_rel_error),
               stg.fast_objfun_abs_error)>>]

\* np.median of an array of multiples of 1/Den (given as numbers of units)
np_median(units) ==
    LET srt == np_sort(units)
        m == Len(units)
    IN  IF m % 2 = 1 THEN Units(srt[(m + 1) \div 2])
        ELSE FDiv(FAdd(Units(srt[m \div 2]), Units(srt[m \div 2 + 1])), Q(2, 1))

\* np.clip(a, top, None): the bound taken for a lower bound
np_clip_from_below(a, top) == [i \in 1..Len(a) |-> RMax(a[i], top)]

\* np.clip(a, None, top)
np_clip(a, top) == [i \in 1..Len(a) |-> RMin(a[i], top)]

\* the logarithm is kept as a term: np.log and math.log of x, and of x / y
np_log(x) == [log |-> x]
np_log_quotient(x, y) == [log_quotient |-> <<x, y>>]

\* the test for too large a dynamism
dynamism_too_high(stg, fmin, fmax) ==
    /\ stg.dynamism_clipping # "off"
    /\ \/ /\ RLess(stg.eps_zero, RAbs(fmin))
          /\ RLess(stg.dynamism_threshold, FDiv(RAbs(fmax), RAbs(fmin)))
       \/ /\ ~RLess(stg.eps_zero, RAbs(fmin))
          /\ RLess(stg.dynamism_threshold, RAbs(fmax))

\* the clipping stage: whether clip_val is bound after it, clip_val and fmax
clipping_stage(stg, units, fmin, fmax) ==
    LET node_val == [i \in 1..Len(units) |-> Units(units[i])]
    IN  IF ~dynamism_too_high(stg, fmin, fmax)
        THEN [bound |-> TRUE, clip_val |-> node_val, fmax |-> fmax]
        ELSE IF stg.dynamism_clipping = "median"
        THEN [bound |-> TRUE, clip_val |-> np_clip(node_val, np_median(units)),
              fmax |-> np_median(units)]
        ELSE IF stg.dynamism_clipping = "clip_at_dyn"
        THEN LET mult == IF RLess(stg.eps_zero, RAbs(fmin)) THEN RAbs(fmin)
                         ELSE Q(1, 1)
                 top == FMul(stg.dynamism_threshold, mult)
             IN  [bound |-> TRUE, clip_val |-> np_clip(node_val, top), fmax |-> top]
        ELSE [bound |-> FALSE, clip_val |-> <<>>, fmax |-> fmax]

\* node_val is given as numbers of units of 1/Den; a clip_val that is not
\* bound fails where the scaling stage first reads it
transform_function_values(stg, units, fmin, fmax_in, fast_node_index) ==
    LET c == clipping_stage(stg, units, fmin, fmax_in)
        clip_val == c.clip_val
        fmax == c.fmax
        fast == [r \in 1..Len(fast_node_index) |-> clip_val[fast_node_index[r]]]
        err_b == bulk_get_fast_error_bounds(stg, fast)
    IN  IF stg.function_scaling = "off"
        THEN IF ~c.bound THEN Raise("UnboundLocalError")
             ELSE Return([node_val |-> clip_val, fmin |-> fmin, fmax |-> fmax,
                          err_bounds |-> err_b])
        ELSE IF stg.function_scaling = "affine"
        THEN LET wide == RLess(stg.eps_zero, FSub(fmax, fmin))
                 denom == IF wide THEN FSub(fmax, fmin) ELSE Q(1, 1)
             IN  IF ~c.bound THEN Raise("UnboundLocalError")
                 ELSE Return([node_val |-> [i \in 1..Len(clip_val) |->
                                               FDiv(FSub(clip_val[i], fmin), denom)],
                              fmin |-> Q(0, 1),
                              fmax |-> IF wide THEN Q(1, 1) ELSE Q(0, 1),
                              err_bounds |-> [r \in 1..Len(err_b) |->
                                                 <<FDiv(err_b[r][1], denom),
                                                   FDiv(err_b[r][2], denom)>>]])
        ELSE IF stg.function_scaling = "log"
        THEN LET shift == IF Len(fast_node_index) = 0
                          THEN RMax(Q(0, 1), FSub(Q(1, 1), fmin))
                          ELSE RMax(Q(0, 1),
                                    FSub(FSub(Q(1, 1), fmin),
                                         get_fast_error_bounds(stg, fmin)[1]))
             IN  IF ~c.bound THEN Raise("UnboundLocalError")
                 ELSE IF ~RLess(Q(0, 1), FAdd(fmin, shift))
                         \/ ~RLess(Q(0, 1), FAdd(fmax, shift))
                 THEN Raise("ValueError")
                 ELSE Return([node_val |-> [i \in 1..Len(clip_val) |->
                                               np_log(FAdd(clip_val[i], shift))],
                              fmin |-> np_log(FAdd(fmin, shift)),
                              fmax |-> np_log(FAdd(fmax, shift)),
                              err_bounds |-> [r \in 1..Len(err_b) |->
                                  <<np_log_quotient(
                                        FAdd(FAdd(fast[r], shift), err_b[r][1]),
                                        FAdd(fast[r], shift)),
                                    np_log_quotient(
                                        FAdd(FAdd(fast[r], shift), err_b[r][2]),
                                        FAdd(fast[r], shift))>>]])
        ELSE Raise("ValueError")

PointOf(units) == [i \in 1..Len(units) |-> Coord(units[i])]

CallTransformDomain ==
    /\ transform.fn = "transform_domain" /\ transform.ret = Pending
    /\ LET after == transform_domain_arguments(
                        transform.settings, transform.var_lower,
                        transform.var_upper, transform.point, transform.reverse)
       IN  transform' = [transform EXCEPT
              !.ret = transform_domain(transform.settings,
                                       PointOf(transform.var_lower),
                                       PointOf(transform.var_upper),
                                       PointOf(transform.point), transform.reverse),
              !.var_lower = after.var_lower, !.var_upper = after.var_upper,
              !.point = after.point]
    /\ UNCHANGED notTransform

\* the caller maps the point it got from transform_domain back to the box
CallTransformDomainBack ==
    /\ transform.fn = "transform_domain" /\ ~transform.reverse
    /\ Returned(transform.ret) /\ transform.back = Pending
    /\ LET after == transform_domain_arguments(
                        transform.settings, transform.var_lower,
                        transform.var_upper, transform.ret.val, TRUE)
       IN  transform' = [transform EXCEPT
              !.back = transform_domain(transform.settings,
                                        PointOf(transform.var_lower),
                                        PointOf(transform.var_upper),
                                        transform.ret.val, TRUE),
              !.var_lower = after.var_lower, !.var_upper = after.var_upper,
              !.ret = Return(after.point)]
    /\ UNCHANGED notTransform

CallBulkTransformDomain ==
    /\ transform.fn = "bulk_transform_domain" /\ transform.ret = Pending
    /\ transform' = [transform EXCEPT !.ret =
          bulk_transform_domain(transform.settings, PointOf(transform.var_lower),
                                PointOf(transform.var_upper),
                                [r \in 1..Len(transform.points) |->
                                    PointOf(transform.points[r])],
                                transform.reverse)]
    /\ UNCHANGED notTransform

CallTransformDomainBounds ==
    /\ transform.fn = "transform_domain_bounds" /\ transform.ret = Pending
    /\ transform' = [transform EXCEPT !.ret =
          transform_domain_bounds(transform.settings, PointOf(transform.var_lower),
                                  PointOf(transform.var_upper))]
    /\ UNCHANGED notTransform

CallGetFastErrorBounds ==
    /\ transform.fn = "get_fast_error_bounds" /\ transform.ret = Pending
    /\ transform' = [transform EXCEPT !.ret =
          Return(get_fast_error_bounds(transform.settings, transform.value))]
    /\ UNCHANGED notTransform

CallBulkGetFastErrorBounds ==
    /\ transform.fn = "bulk_get_fast_error_bounds" /\ transform.ret = Pending
    /\ transform' = [transform EXCEPT !.ret =
          Return(bulk_get_fast_error_bounds(transform.settings, transform.values))]
    /\ UNCHANGED notTransform

CallTransformFunctionValues ==
    /\ transform.fn = "transform_function_values" /\ transform.ret = Pending
    /\ transform' = [transform EXCEPT !.ret =
          transform_function_values(transform.settings, transform.node_val,
                                    Units(transform.fmin), Units(transform.fmax),
                                    transform.fast_node_index)]
    /\ UNCHANGED notTransform

\* the calls of the three domain transformations on a box and a point
DomainCalls(lower, upper, pt, stg, rev, pending) ==
    {[fn |-> "transform_domain", settings |-> stg, var_lower |-> lower,
      var_upper |-> upper, point |-> pt, reverse |-> rev, ret |-> pending,
      given |-> [var_lower |-> lower, var_upper |-> upper, point |-> pt],
      back |-> pending],
     [fn |-> "bulk_transform_domain", settings |-> stg, var_lower |-> lower,
      var_upper |-> upper, points |-> <<pt, upper>>, reverse |-> rev,
      ret |-> pending],
     [fn |-> "transform_domain_bounds", settings |-> stg, var_lower |-> lower,
      var_upper |-> upper, ret |-> pending]}

\* the values of the function that are given: multiples of 1/Den
FunctionValues == (0 - MaxVal)..(MaxVal + 1)

InitDomainCall ==
    \E n \in Dims :
        \E box \in Boxes(n), pt \in [1..n -> 0..MaxCoord],
           mode \in DomainScalings, rev \in BOOLEAN :
            transform \in DomainCalls([i \in 1..n |-> box[i][1]],
                                      [i \in 1..n |-> box[i][2]], pt,
                                      [domain_scaling |-> mode], rev, Pending)

InitFunctionValuesCall ==
    \E clipping \in DynamismClippings, scaling \in FunctionScalings,
       thr \in DynamismThresholds, eps \in EpsZeroValues,
       k \in NodeCounts, fmin \in FunctionValues, fmax \in FunctionValues,
       fast \in {<<>>, <<1>>} :
        /\ fmin <= fmax
        /\ \E val \in [1..k -> FunctionValues] :
              transform =
                  [fn |-> "transform_function_values",
                   settings |-> [dynamism_clipping |-> clipping,
                                 function_scaling |-> scaling,
                                 dynamism_threshold |-> Units(thr),
                                 eps_zero |-> Units(eps),
                                 fast_objfun_rel_error |-> Q(1, 2),
                                 fast_objfun_abs_error |-> Q(1, 1)],
                   node_val |-> val, fmin |-> fmin, fmax |-> fmax,
                   fast_node_index |-> fast, ret |-> Pending]

\* the tolerances of the settings and the values given to the error bounds
Tolerances == {Fl(Q(0, 1)), Fl(Q(1, 100)), Fl(Q(1, 10)), Fl(Q(1, 2)), Fl(Q(1, 1))}
ErrorValues == {Fl(Q(-5, 1)), Fl(Q(-1, 3)), Fl(Q(0, 1)), Fl(Q(1, 1)), Fl(Q(5, 2))}

InitErrorBoundsCall ==
    \E rel \in Tolerances, abs \in Tolerances :
        LET stg == [fast_objfun_rel_error |-> rel, fast_objfun_abs_error |-> abs]
        IN  \/ \E v \in ErrorValues :
                  transform = [fn |-> "get_fast_error_bounds", settings |-> stg,
                               value |-> v, ret |-> Pending]
            \/ \E k \in NodeCounts : \E vs \in [1..k -> ErrorValues] :
                  transform = [fn |-> "bulk_get_fast_error_bounds",
                               settings |-> stg, values |-> vs, ret |-> Pending]

InitTransform ==
    /\ InitDomainCall \/ InitFunctionValuesCall \/ InitErrorBoundsCall
    /\ round_call = NoCall /\ solve = NoCall /\ design = NoCall
    /\ SchedIdle /\ PoolIdle /\ BoxIdle /\ NodesIdle

NextTransform ==
    \/ CallTransformDomain
    \/ CallTransformDomainBack
    \/ CallBulkTransformDomain
    \/ CallTransformDomainBounds
    \/ CallTransformFunctionValues
    \/ CallGetFastErrorBounds
    \/ CallBulkGetFastErrorBounds

SpecTransform == InitTransform /\ [][NextTransform]_vars

\* ------------------------------------------------------------------------
\* Claims about the transform pipeline
\* ------------------------------------------------------------------------

TransformDone == transform # NoCall /\ transform.ret # Pending

\* a point was transformed and transformed back, in a box of positive width
\* in every dimension, under a domain scaling that is implemented
RoundTripDone ==
    /\ transform.fn = "transform_domain" /\ transform.back # Pending
    /\ transform.settings.domain_scaling \in {"off", "affine"}
    /\ \A i \in 1..Len(transform.given.var_lower) :
           transform.given.var_lower[i] < transform.given.var_upper[i]

\* the arrays of the call are as they were given
ArgumentsUnchanged ==
    /\ transform.var_lower = transform.given.var_lower
    /\ transform.var_upper = transform.given.var_upper
    /\ transform.point = transform.given.point

\* the round trip reproduces coordinate i of the point exactly
ReproducedExactly(i) == transform.back.val[i] = Coord(transform.given.point[i])

\* the round trip reproduces coordinate i of the point within 8 units of
\* roundoff (2^-MantBits) of the largest magnitude among the coordinate and
\* its two bounds
ReproducedWithinRounding(i) ==
    LET x == Coord(transform.given.point[i])
        lo == Coord(transform.given.var_lower[i])
        up == Coord(transform.given.var_upper[i])
        largest == RMax(RAbs(x), RMax(RAbs(lo), RAbs(up)))
        err == RAbs(RSub(transform.back.val[i], x))
    IN  ~RLess(RMul(Q(8, Pow2(MantBits)), largest), err)

\* C12 as stated: for domain_scaling 'off' or 'affine' and a box of positive
\* width in every dimension, transforming a point and transforming the result
\* back reproduces the point, and the calls leave var_lower, var_upper and
\* the point as they were.
C12_RoundTripReproducesPoint ==
    RoundTripDone =>
        /\ Returned(transform.back)
        /\ \A i \in 1..Len(transform.given.point) : ReproducedExactly(i)
        /\ ArgumentsUnchanged

\* C12: for domain_scaling 'off' the round trip reproduces the point
\* exactly; for 'affine' it reproduces every coordinate up to the rounding of
\* the four floating-point operations (at most 8 units of roundoff of the
\* largest magnitude among the coordinate and its two bounds); in both modes
\* the calls leave var_lower, var_upper and the point as they were.
C12_RoundTripWithinRounding ==
    RoundTripDone =>
        /\ Returned(transform.back)
        /\ \A i \in 1..Len(transform.given.point) :
               IF transform.settings.domain_scaling = "off"
               THEN ReproducedExactly(i)
               ELSE ReproducedWithinRounding(i)
        /\ ArgumentsUnchanged

\* an affine round trip in dimension 2 that the rounding moves off the point
\* in its first coordinate and not in its second
C12_Witness ==
    /\ RoundTripDone /\ transform.settings.domain_scaling = "affine"
    /\ Len(transform.given.point) = 2
    /\ ~ReproducedExactly(1) /\ ReproducedWithinRounding(1)
    /\ ReproducedExactly(2)
    /\ transform.given.var_lower[1] < transform.given.point[1]
    /\ transform.given.point[1] < transform.given.var_upper[1]

\* the settings of the call name a mode that the entry point does not implement
UnsupportedMode ==
    IF transform.fn = "transform_function_values"
    THEN \/ transform.settings.function_scaling \notin {"off", "affine", "log"}
         \/ transform.settings.dynamism_clipping \notin {"off", "median", "clip_at_dyn"}
    ELSE transform.settings.domain_scaling \notin {"off", "affine"}

\* C10: for every entry point of the transform pipeline and every input, a
\* mode name that is not supported (in domain_scaling, function_scaling or
\* dynamism_clipping) makes the call fail with ValueError; it never returns a
\* result as if the mode were 'off'.
C10_UnsupportedModeRaisesValueError ==
    (TransformDone /\ UnsupportedMode) => transform.ret = Raise("ValueError")

\* transform_function_values returned under median clipping and no scaling,
\* on arguments for which the test on the dynamism held
MedianClipped ==
    /\ transform.fn = "transform_function_values" /\ transform.ret # Pending
    /\ transform.settings.dynamism_clipping = "median"
    /\ transform.settings.function_scaling = "off"
    /\ dynamism_too_high(transform.settings, Units(transform.fmin),
                         Units(transform.fmax))

\* x <= y on fractions
RLeq(x, y) == ~RLess(y, x)

\* med is a median of the values: at least half of them are not above it, at
\* least half of them are not below it
IsMedian(med, units) ==
    /\ 2 * Cardinality({i \in 1..Len(units) : RLeq(Units(units[i]), med)}) >= Len(units)
    /\ 2 * Cardinality({i \in 1..Len(units) : RLeq(med, Units(units[i]))}) >= Len(units)

\* C13: under dynamism_clipping 'median', whenever the test on the dynamism
\* holds (|fmin| > eps_zero and |fmax|/|fmin| > dynamism_threshold, or
\* |fmin| <= eps_zero and |fmax| > dynamism_threshold), the values returned
\* under function_scaling 'off' do not exceed the median of node_val, the
\* values not above the median are unchanged, and the fmax returned is the
\* median.
C13_MedianClipping ==
    MedianClipped =>
        /\ Returned(transform.ret)
        /\ LET med == transform.ret.val.fmax
               val == transform.ret.val.node_val
           IN  /\ med = np_median(transform.node_val)
               /\ IsMedian(med, transform.node_val)
               /\ Len(val) = Len(transform.node_val)
               /\ \A i \in 1..Len(val) :
                     /\ RLeq(val[i], med)
                     /\ RLeq(Units(transform.node_val[i]), med)
                            => val[i] = Units(transform.node_val[i])

\* two values, the larger one brought down to their mean
C13_Witness ==
    /\ MedianClipped /\ Returned(transform.ret)
    /\ Len(transform.node_val) = 2
    /\ transform.node_val[1] < transform.node_val[2]
    /\ transform.ret.val.node_val[1] = Units(transform.node_val[1])
    /\ transform.ret.val.node_val[2] = transform.ret.val.fmax
    /\ RLess(transform.ret.val.fmax, Units(transform.node_val[2]))

\* transform_function_values returned under function_scaling 'affine'
AffineScaled ==
    /\ transform.fn = "transform_function_values" /\ transform.ret # Pending
    /\ transform.settings.function_scaling = "affine"
    /\ transform.settings.dynamism_clipping \in {"off", "median", "clip_at_dyn"}

\* the clipping stage of the call: the values and the maximum that are scaled
Clipped ==
    clipping_stage(transform.settings, transform.node_val,
                   Units(transform.fmin), Units(transform.fmax))

\* after clipping, every value lies between fmin and the maximum
ValuesWithinRange ==
    \A i \in 1..Len(Clipped.clip_val) :
        /\ RLeq(Units(transform.fmin), Clipped.clip_val[i])
        /\ RLeq(Clipped.clip_val[i], Clipped.fmax)

\* C14: under function_scaling 'affine' the minimum reported is 0 and, when
\* the values lie in [fmin, fmax] after clipping, every value returned lies
\* between the minimum and the maximum reported (0 and 1, or 0 and 0 when the
\* range has no width, the divisor then being 1).
C14_AffineWithinReportedRange ==
    (AffineScaled /\ ValuesWithinRange) =>
        /\ Returned(transform.ret)
        /\ transform.ret.val.fmin = Q(0, 1)
        /\ transform.ret.val.fmax \in {Q(0, 1), Q(1, 1)}
        /\ Clipped.fmax = Units(transform.fmin) => transform.ret.val.fmax = Q(0, 1)
        /\ \A i \in 1..Len(transform.ret.val.node_val) :
              /\ RLeq(transform.ret.val.fmin, transform.ret.val.node_val[i])
              /\ RLeq(transform.ret.val.node_val[i], transform.ret.val.fmax)

\* |v| * rel + abs, each operation rounded
ErrorRadius(stg, v) ==
    Fl(RAdd(Fl(RMul(RAbs(v), stg.fast_objfun_rel_error)), stg.fast_objfun_abs_error))

\* C15: for every value v and tolerances rel, abs >= 0, get_fast_error_bounds
\* returns [-(|v|*rel+abs), |v|*rel+abs], so that lower = -upper and
\* lower <= 0 <= upper (rel = 0.1, abs = 0.01, v = -5 give [-0.51, 0.51]); row
\* j of bulk_get_fast_error_bounds(values) is get_fast_error_bounds(values[j]).
C15_FastErrorBounds ==
    /\ (transform.fn = "get_fast_error_bounds" /\ transform.ret # Pending) =>
          LET b == transform.ret.val
          IN  /\ b[2] = ErrorRadius(transform.settings, transform.value)
              /\ b[1] = RNeg(b[2])
              /\ RLeq(b[1], Q(0, 1)) /\ RLeq(Q(0, 1), b[2])
              /\ (/\ transform.value = Fl(Q(-5, 1))
                  /\ transform.settings.fast_objfun_rel_error = Fl(Q(1, 10))
                  /\ transform.settings.fast_objfun_abs_error = Fl(Q(1, 100)))
                     => b = <<Fl(Q(-51, 100)), Fl(Q(51, 100))>>
    /\ (transform.fn = "bulk_get_fast_error_bounds" /\ transform.ret # Pending) =>
          /\ Len(transform.ret.val) = Len(transform.values)
          /\ \A j \in 1..Len(transform.values) :
                /\ transform.ret.val[j][2] =
                       ErrorRadius(transform.settings, transform.values[j])
                /\ transform.ret.val[j][1] = RNeg(transform.ret.val[j][2])

\* two different values bounded in one call, with tolerances that are not zero
C15_Witness ==
    /\ transform.fn = "bulk_get_fast_error_bounds" /\ transform.ret # Pending
    /\ transform.values = <<Fl(Q(-5, 1)), Fl(Q(1, 1))>>
    /\ transform.settings.fast_objfun_rel_error = Fl(Q(1, 10))
    /\ transform.settings.fast_objfun_abs_error = Fl(Q(1, 100))
    /\ transform.ret.val[1] = <<Fl(Q(-51, 100)), Fl(Q(51, 100))>>
    /\ transform.ret.val[2] # transform.ret.val[1]

\* ------------------------------------------------------------------------
\* The generators of an initial design called on a box: get_all_corners,
\* get_lower_corners, get_lhd_corr_points
\* ------------------------------------------------------------------------

\* var_lower and var_upper as a generator of corners leaves them: node_pos is
\* a new array (np.empty, np.tile), the only one that is written into
corners_arguments(lower, upper) == [var_lower |-> lower, var_upper |-> upper]

CallGetAllCorners ==
    /\ design.fn = "get_all_corners" /\ design.ret = Pending
    /\ LET after == corners_arguments(design.var_lower, design.var_upper)
       IN  design' = [design EXCEPT
              !.ret = Return(get_all_corners(design.var_lower, design.var_upper)),
              !.var_lower = after.var_lower, !.var_upper = after.var_upper]
    /\ UNCHANGED notDesign

CallGetLowerCorners ==
    /\ design.fn = "get_lower_corners" /\ design.ret = Pending
    /\ LET after == corners_arguments(design.var_lower, design.var_upper)
       IN  design' = [design EXCEPT
              !.ret = Return(get_lower_corners(design.var_lower, design.var_upper)),
              !.var_lower = after.var_lower, !.var_upper = after.var_upper]
    /\ UNCHANGED notDesign

\* the calls on a box of dimension 1 or 2, of any bounds
InitCornersCall ==
    \E n \in Dims, fn \in {"get_all_corners", "get_lower_corners"} :
        \E lower \in [1..n -> 0..MaxCoord], upper \in [1..n -> 0..MaxCoord] :
            design = [fn |-> fn, var_lower |-> lower, var_upper |-> upper,
                      given |-> [var_lower |-> lower, var_upper |-> upper],
                      ret |-> Pending]

\* column a of a matrix given as the sequence of its rows
Column(mat, a) == [i \in 1..Len(mat) |-> mat[i][a]]

RECURSIVE LCMTo(_, _)
LCMTo(f, m) ==
    IF m = 0 THEN 1
    ELSE LET d == LCMTo(f, m - 1) IN (d * f[m][2]) \div GCD(d, f[m][2])

RECURSIVE GCDTo(_, _)
GCDTo(f, m) == IF m = 0 THEN 0 ELSE GCD(Abs(f[m]), GCDTo(f, m - 1))

\* the column x as integers in lowest terms: x times a positive factor, which
\* leaves every correlation of x as it is
Proportional(x) ==
    LET d == LCMTo(x, Len(x))
        scaled == [i \in 1..Len(x) |-> x[i][1] * (d \div x[i][2])]
        g == GCDTo(scaled, Len(x))
    IN  IF g = 0 THEN scaled ELSE [i \in 1..Len(x) |-> scaled[i] \div g]

\* m * sum(x * y) - sum(x) * sum(y): m^2 times the covariance of x and y
Covariation(x, y) ==
    LET m == Len(x)
    IN  m * SumTo([i \in 1..m |-> x[i] * y[i]], m) - SumTo(x, m) * SumTo(y, m)

\* np.corrcoef(mat, rowvar = 0)[a, b], the correlation c of columns a and b,
\* given as c * |c|: a rational, and in the same order as c is
corrcoef(mat, a, b) ==
    LET x == Proportional(Column(mat, a))
        y == Proportional(Column(mat, b))
        cxy == Covariation(x, y)
    IN  Q(cxy * Abs(cxy), Covariation(x, x) * Covariation(y, y))

\* np.triu_indices(n, 1): the pairs of columns a < b
triu_indices(n) == {ab \in (1..n) \X (1..n) : ab[1] < ab[2]}

\* np.amax over a nonempty finite set of rationals
np_amax(S) == CHOOSE x \in S : \A y \in S : RLeq(y, x)

\* abs(np.amax(np.corrcoef(mat, rowvar = 0)[indices])), in the order-preserving
\* form of corrcoef
corr_value(mat) ==
    RAbs(np_amax({corrcoef(mat, ab[1], ab[2]) : ab \in triu_indices(Len(mat[1]))}))

\* the largest absolute value of the correlation of two columns
max_abs_corr(mat) ==
    np_amax({RAbs(corrcoef(mat, ab[1], ab[2])) : ab \in triu_indices(Len(mat[1]))})

\* values.index(min(values)): the first position of the least value
index_of_min(values) ==
    CHOOSE k \in 1..Len(values) :
        /\ \A l \in 1..Len(values) : RLeq(values[k], values[l])
        /\ \A l \in 1..(k - 1) : RLess(values[k], values[l])

\* the dimensions of the boxes of get_lhd_corr_points: two columns have one
\* pair, three have three
LhdDims == {1, 2, 3}

\* (0 + s) / num_samples in floating point, for stratum s of num_samples
unit_stratum ==
    [num_samples \in {n + 1 : n \in LhdDims}, s \in 0..Max(LhdDims) |->
        FDiv(FAdd(Q(0, 1), Fl(Q(s, 1))), Fl(Q(num_samples, 1)))]

\* (np.random.rand(num_samples, n) + int_lh) / num_samples of get_uniform_lhs,
\* for the strata int_lh and every random number drawn as 0
get_uniform_lhs(int_lh) ==
    [i \in 1..Len(int_lh) |->
        [j \in 1..Len(int_lh[i]) |-> unit_stratum[Len(int_lh), int_lh[i][j]]]]

\* lhd * (var_upper - var_lower) + var_lower
map_to_box(lhd, lower, upper) ==
    [i \in 1..Len(lhd) |->
        [j \in 1..Len(lower) |->
            FAdd(FMul(lhd[i][j], FSub(Fl(Q(upper[j], 1)), Fl(Q(lower[j], 1)))),
                 Fl(Q(lower[j], 1)))]]

\* lhs is the list of the num_trials results of get_uniform_lhs(n, n + 1)
get_lhd_corr_points(lower, upper, lhs) ==
    IF Len(lower) = 1
    THEN <<[j \in 1..1 |-> Fl(Q(lower[j], 1))], [j \in 1..1 |-> Fl(Q(upper[j], 1))]>>
    ELSE LET corr_values == [t \in 1..Len(lhs) |-> corr_value(lhs[t])]
             lhd == lhs[index_of_min(corr_values)]
         IN  map_to_box(lhd, lower, upper)

CallGetLhdCorrPoints ==
    /\ design.fn = "get_lhd_corr_points" /\ design.ret = Pending
    /\ design' = [design EXCEPT !.ret =
          Return(get_lhd_corr_points(design.var_lower, design.var_upper,
                                     design.lhs))]
    /\ UNCHANGED notDesign

\* the values of num_trials
TrialCounts == {1, 2}

\* np.random.permutation(m) as a column of int_lh: every order of three
\* strata, four of the orders of four
StrataOrders(m) ==
    IF m < 4 THEN Perms(m)
    ELSE {<<0, 1, 2, 3>>, <<3, 2, 1, 0>>, <<1, 3, 0, 2>>, <<1, 0, 3, 2>>}

\* the bounds of the cubes of get_lhd_corr_points: the unit cube, a cube that
\* is shifted and scaled, and a point
LhdIntervals == {<<0, 1>>, <<1, 3>>, <<2, 2>>}

\* int_lh of get_uniform_lhs(n, n + 1): a permutation in every column
IntegerLhs(n) ==
    {[i \in 1..(n + 1) |-> [j \in 1..n |-> cols[j][i]]] :
        cols \in [1..n -> StrataOrders(n + 1)]}

\* the calls of get_lhd_corr_points on a cube [lo, up]^n; in dimension 1 no
\* candidate is drawn
InitLhdCorrCall ==
    \E n \in LhdDims, iv \in LhdIntervals :
        \E trials \in IF n = 1 THEN {0} ELSE TrialCounts :
            \E int_lhs \in [1..trials -> IntegerLhs(n)] :
                design = [fn |-> "get_lhd_corr_points",
                          var_lower |-> [j \in 1..n |-> iv[1]],
                          var_upper |-> [j \in 1..n |-> iv[2]],
                          lhs |-> [t \in 1..trials |-> get_uniform_lhs(int_lhs[t])],
                          ret |-> Pending]

InitDesign ==
    /\ (InitCornersCall \/ InitLhdCorrCall)
    /\ round_call = NoCall /\ solve = NoCall /\ transform = NoCall
    /\ SchedIdle /\ PoolIdle /\ BoxIdle /\ NodesIdle

NextDesign ==
    \/ CallGetAllCorners
    \/ CallGetLowerCorners
    \/ CallGetLhdCorrPoints

SpecDesign == InitDesign /\ [][NextDesign]_vars

\* ------------------------------------------------------------------------
\* Claims about the generators of an initial design
\* ------------------------------------------------------------------------

DesignDone(fn) == design.fn = fn /\ design.ret # Pending

\* C18: for every box of dimension n, get_lower_corners returns n+1 points,
\* the first of them var_lower and point number i after it (i = 1..n)
\* var_lower with coordinate i replaced by var_upper's; var_lower and
\* var_upper are left as they were.
C18_LowerCorners ==
    DesignDone("get_lower_corners") =>
        LET lower == design.given.var_lower
            upper == design.given.var_upper
            n == Len(lower)
            pts == design.ret.val
        IN  /\ Len(pts) = n + 1
            /\ pts[1] = lower
            /\ \A i \in 1..n :
                  /\ Len(pts[i + 1]) = n
                  /\ pts[i + 1][i] = upper[i]
                  /\ \A j \in (1..n) \ {i} : pts[i + 1][j] = lower[j]
            /\ design.var_lower = lower /\ design.var_upper = upper

\* a box of dimension 2 with different bounds in both coordinates
C18_Witness ==
    /\ DesignDone("get_lower_corners")
    /\ design.given.var_lower = <<0, 1>> /\ design.given.var_upper = <<2, 3>>
    /\ design.ret.val = <<<<0, 1>>, <<2, 1>>, <<0, 3>>>>

\* the points of a sequence are pairwise distinct
PairwiseDistinct(pts) ==
    \A a, b \in 1..Len(pts) : a # b => pts[a] # pts[b]

\* the points are the 2^n combinations of lower and upper bounds
AllCombinations(pts, lower, upper) ==
    /\ Len(pts) = Pow2(Len(lower))
    /\ \A a \in 1..Len(pts) :
          /\ Len(pts[a]) = Len(lower)
          /\ \A j \in 1..Len(lower) : pts[a][j] \in {lower[j], upper[j]}
    /\ \A pick \in [1..Len(lower) -> BOOLEAN] :
          \E a \in 1..Len(pts) :
              \A j \in 1..Len(lower) :
                  pts[a][j] = IF pick[j] THEN upper[j] ELSE lower[j]

\* C19 as stated: for every box of dimension n, get_all_corners returns 2^n
\* points that are pairwise distinct, every coordinate of every point being
\* its lower or its upper bound, and every combination of them occurring.
C19_AllCornersDistinct ==
    DesignDone("get_all_corners") =>
        /\ AllCombinations(design.ret.val, design.given.var_lower,
                           design.given.var_upper)
        /\ PairwiseDistinct(design.ret.val)

\* C19: for every box of dimension n, get_all_corners returns 2^n points,
\* every coordinate of every point being its lower or its upper bound and
\* every combination of them occurring; the points are pairwise distinct
\* exactly when var_lower[j] differs from var_upper[j] in every dimension j.
C19_AllCorners ==
    DesignDone("get_all_corners") =>
        /\ AllCombinations(design.ret.val, design.given.var_lower,
                           design.given.var_upper)
        /\ PairwiseDistinct(design.ret.val) <=>
               \A j \in 1..Len(design.given.var_lower) :
                   design.given.var_lower[j] # design.given.var_upper[j]

\* the four corners of a box of dimension 2, in the order of the product
C19_Witness ==
    /\ DesignDone("get_all_corners")
    /\ design.given.var_lower = <<0, 1>> /\ design.given.var_upper = <<2, 3>>
    /\ design.ret.val = <<<<0, 1>>, <<0, 3>>, <<2, 1>>, <<2, 3>>>>

\* get_random_corners has returned to initialize_nodes: generated holds its
\* result until the next attempt begins
RandomCornersReturned ==
    settings.init_strategy = "rand_corners" /\ generated # <<>>

\* C20: whenever get_random_corners returns, its result has n+1 points, every
\* coordinate of every point is the lower or the upper bound of the box in
\* that coordinate, and the points are pairwise distinct.
C20_RandomCornersDistinctVertices ==
    RandomCornersReturned =>
        /\ Len(generated) = Len(var_lower) + 1
        /\ \A a \in 1..Len(generated) :
              /\ Len(generated[a]) = Len(var_lower)
              /\ \A j \in 1..Len(var_lower) :
                    generated[a][j] \in {var_lower[j], var_upper[j]}
        /\ PairwiseDistinct(generated)

\* get_random_corners returned three of the four corners of a box of
\* dimension 2
C20_Witness ==
    /\ RandomCornersReturned
    /\ var_lower = <<0, 0>> /\ var_upper = <<1, 2>>
    /\ generated = <<<<1, 0>>, <<0, 2>>, <<1, 2>>>>

\* the candidates of a call of get_lhd_corr_points that attain the least of
\* the largest absolute correlations of two columns
LeastCorrelated(lhs) ==
    {t \in 1..Len(lhs) :
        \A u \in 1..Len(lhs) : RLeq(max_abs_corr(lhs[t]), max_abs_corr(lhs[u]))}

\* C16 as stated: get_lhd_corr_points scores every candidate design by the
\* largest absolute value of the correlation of two of its columns and
\* returns, mapped to the box, the first candidate whose score is the least.
C16_MinimumOfMaxAbsCorrelation ==
    (DesignDone("get_lhd_corr_points") /\ Len(design.var_lower) > 1) =>
        \E t \in LeastCorrelated(design.lhs) :
            /\ \A u \in LeastCorrelated(design.lhs) : t <= u
            /\ design.ret.val =
                  map_to_box(design.lhs[t], design.var_lower, design.var_upper)

\* C23 as stated: under fair random choice of corners, get_random_corners
\* returns for every box, the boxes with var_lower[i] = var_upper[i] in some
\* dimensions included, and the 'rand_corners' branch of initialize_nodes
\* reaches a returned node set or the RuntimeError.
C23_RandomCornersTerminates ==
    /\ [](pc = "sampling" => <>(pc # "sampling"))
    /\ <>(pc \in {"returned", "raised"})

====